---- MODULE Spec2Model ----
(***************************************************************************)
(* A model of the IRGN reconstruction of PyQMRI: the Gauss-Newton loop of  *)
(* ModelReco._execute_3D (src/pyqmri/irgn/reco.py) around a signal model   *)
(* with per-unknown scales and box constraints                             *)
(* (src/pyqmri/models/DiffdirLL.py, src/IRLL_Model.py).                    *)
(*                                                                         *)
(* Numbers.  A floating-point value is modelled as an exact rational       *)
(* <<n, d>> in lowest terms with d > 0, extended by the three IEEE         *)
(* specials the code can produce: +Inf = <<1, 0>>, -Inf = <<-1, 0>> and    *)
(* NaN = <<0, 0>>.  Rounding is not modelled; division by zero, Inf and    *)
(* NaN propagation are.                                                    *)
(*                                                                         *)
(* Geometry.  One voxel (NSlice = dimY = dimX = 1), NScan scans and        *)
(* `unknowns` parameter maps, so x[u] is one complex number and a Jacobian *)
(* column grad_x[u] is a vector of NScan entries.                          *)
(***************************************************************************)
EXTENDS Integers, Sequences, FiniteSets, TLC

(***************************************************************************)
(* Extended rational arithmetic (numpy float semantics without rounding).  *)
(***************************************************************************)
Sign(n) == IF n > 0 THEN 1 ELSE IF n < 0 THEN -1 ELSE 0

AbsI(n) == IF n < 0 THEN -n ELSE n

RECURSIVE GCD(_, _)
GCD(a, b) == IF b = 0 THEN a ELSE GCD(b, a % b)

\* <<n, d>> in lowest terms; a zero denominator keeps only the sign of n.
Norm(n, d) ==
  IF d = 0 THEN <<Sign(n), 0>>
  ELSE LET g == GCD(AbsI(n), AbsI(d))
       IN  <<(Sign(d) * n) \div g, AbsI(d) \div g>>

Rat(n) == <<n, 1>>

Frac(n, d) == Norm(n, d)

PInf == <<1, 0>>

NInf == <<-1, 0>>

NaN == <<0, 0>>

Zero == <<0, 1>>

One == <<1, 1>>

IsNaN(a) == a = NaN

IsInf(a) == a = PInf \/ a = NInf

IsFinite(a) == a[2] # 0

Neg(a) == <<-a[1], a[2]>>

Abs(a) == <<AbsI(a[1]), a[2]>>

\* inf * 0 = NaN, inf * inf = inf, NaN * x = NaN all follow from Norm.
Mul(a, b) == Norm(a[1] * b[1], a[2] * b[2])

\* 1/0 = +Inf (signed zeros are not modelled), 1/inf = 0, 1/NaN = NaN.
Inv(a) ==
  IF a = NaN THEN NaN
  ELSE IF a[1] = 0 THEN PInf
  ELSE IF a[1] > 0 THEN <<a[2], a[1]>>
  ELSE <<-a[2], -a[1]>>

Div(a, b) == Mul(a, Inv(b))

Add(a, b) ==
  IF IsNaN(a) \/ IsNaN(b) THEN NaN
  ELSE IF IsInf(a) THEN (IF IsInf(b) /\ b # a THEN NaN ELSE a)
  ELSE IF IsInf(b) THEN b
  ELSE Norm(a[1] * b[2] + b[1] * a[2], a[2] * b[2])

Sub(a, b) == Add(a, Neg(b))

\* IEEE comparisons: every comparison with NaN is false.
Lt(a, b) ==
  /\ ~IsNaN(a)
  /\ ~IsNaN(b)
  /\ IF IsInf(a) \/ IsInf(b)
     THEN a # b /\ (a = NInf \/ b = PInf)
     ELSE a[1] * b[2] < b[1] * a[2]

Le(a, b) == ~IsNaN(a) /\ ~IsNaN(b) /\ (a = b \/ Lt(a, b))

RECURSIVE SqrtSearch(_, _, _)
SqrtSearch(lo, hi, n) ==
  IF lo >= hi THEN lo
  ELSE LET mid == (lo + hi + 1) \div 2
       IN  IF mid * mid <= n THEN SqrtSearch(mid, hi, n)
           ELSE SqrtSearch(lo, mid - 1, n)

\* Integer square root (floor); 46340^2 is the largest square TLC's integers hold.
ISqrt(n) == SqrtSearch(0, IF n < 46340 THEN n ELSE 46340, n)

\* np.sqrt on a non-negative value.  The inputs the model draws keep every
\* radicand a perfect square, so the root is exact.
Sqrt(a) ==
  IF IsNaN(a) \/ a = NInf \/ a[1] < 0 THEN NaN
  ELSE IF a = PInf THEN PInf
  ELSE <<ISqrt(a[1]), ISqrt(a[2])>>


(***************************************************************************)
(* Sizes and inputs.                                                       *)
(***************************************************************************)
\* par["unknowns"]: the number of parameter maps of the model.
unknowns == 2

\* par["NScan"]: every Jacobian column has NScan * NSlice * dimY * dimX entries.
NScan == 2

\* Largest irgn_par["max_gn_it"] the model configures.
MaxGnIt == 2

\* Largest irgn_par["start_iters"] and irgn_par["max_iters"] the model configures.
MaxIters == 2

\* The objective check of the inner solvers: "if not np.mod(i, 50)".
CheckEvery == 50

\* Stand-in for np.finfo(np.float32).max, the value np.nan_to_num gives +Inf;
\* cut to the range of the model's integers.  It is finite and not zero.
FLT_MAX == 2147483647

Uk == 1 .. unknowns

Scans == 1 .. NScan

Cx(re, im) == [re |-> re, im |-> im]

\* irgn_par as read by _execute_3D, and the TV flag handed to execute.
Configs ==
  [TV : {0, 1},
   start_iters : 1 .. MaxIters,
   max_iters : 1 .. MaxIters,
   max_gn_it : 1 .. MaxGnIt,
   tol : {Frac(1, 2), Frac(3, 2)},
   lambd : {Rat(2)}]

\* The measured data, one value per scan.
data == <<Rat(2), Rat(2)>>

\* What the analytic signal expression can evaluate to (per scan), before any
\* filter: finite values and the non-finite results of overflow and 0 * inf.
ForwardValues == {<<Rat(2), Rat(2)>>, <<Rat(1), Rat(2)>>, <<NaN, Rat(2)>>}

\* What the partial derivatives with respect to the physical parameters
\* x[u] * uk_scale[u] can evaluate to: one column per unknown.
JacobianValues ==
  {<< <<Rat(1), Rat(1)>>, <<Rat(1), Rat(7)>> >>,
   << <<Rat(1), Rat(7)>>, <<Rat(-1), Rat(-1)>> >>,
   << <<Rat(1), Rat(1)>>, <<Rat(0), Rat(0)>> >>,
   << <<NaN, PInf>>, <<Rat(1), Rat(1)>> >>}

\* Values the unconstrained primal step can take, before the projection: one
\* value per unknown.
PrimalValues ==
  {<<Cx(Rat(20), Rat(1)), Cx(Rat(-20), Rat(-1))>>,
   <<Cx(Frac(1, 100), Rat(1)), Cx(Frac(1, 100), Rat(1))>>}

VARIABLES
  cfg,          \* irgn_par and the TV flag
  pc,           \* position in _execute_3D / the inner solver
  ign,          \* GN index of the loop in _execute_3D
  iters,        \* inner iteration budget
  result,       \* the GN iterate (complex, one value per unknown)
  uk_scale,     \* model.uk_scale
  constraints,  \* model.constraints
  grad_x,       \* self.grad_x
  grad_buf,     \* device copy of grad_x
  step_val,     \* self.step_val
  fval,         \* self._fval
  fval_old,     \* self._fval_old
  fval_init,    \* self._fval_init
  gn_res,       \* self.gn_res
  x,            \* inner solver: current iterate
  x_new,        \* inner solver: buffer written by update_primal
  xk,           \* inner solver: linearization point
  i,            \* inner iteration index
  min_const,    \* device copies made by _eval_const
  max_const,
  real_const,
  file,         \* the output container: datasets and attributes by key
  dphys,        \* the model's derivative values at the last execute_gradient
  fphys,        \* the model's signal values at the last execute_forward
  uploads,      \* uploads of grad_buf since the start of the GN step
  gpoint,       \* the physical parameters execute_gradient was last called with
  fpoint,       \* the physical parameters execute_forward was last called with
  mdl,          \* the signal model in use
  raw,          \* entries of a model evaluation before any filter
  filt,         \* the same entries on their way to the GN step
  self,         \* inner solver: the fields of the ModelReco object it uses
  arg,          \* inner solver: the arguments and parameters of the call
  loc,          \* inner solver: its scalar locals (i, tau, beta_line, ...)
  bind,         \* inner solver: device array bound to each Python name
  mem,          \* inner solver: content of each device array
  queue,        \* kernels and swaps of the inner iteration in progress: <<what, target, i>>
  tests,        \* outcomes of the acceptance tests of the line search in progress
  out,          \* what the last solver call returned
  calls,        \* solver calls made so far
  irgn_par,     \* the entries of self.irgn_par that _update_reg_par overwrites
  selfpar,      \* self.delta, self.delta_max, self.gamma, self.omega
  xnorm,        \* np.linalg.norm(result) at the last _update_reg_par
  execs,        \* execute calls that have returned
  voxel         \* one voxel of a diffusion model: its inputs and what rescale,
                \* _execute_forward_3D and _execute_gradient_3D returned for it

vars ==
  <<cfg, pc, ign, iters, result, uk_scale, constraints, grad_x, grad_buf,
    step_val, fval, fval_old, fval_init, gn_res, x, x_new, xk, i, min_const,
    max_const, real_const, file, dphys, fphys, uploads, gpoint, fpoint, mdl,
    raw, filt, self, arg, loc, bind, mem, queue, tests, out, calls, irgn_par,
    selfpar, xnorm, execs, voxel>>

modelVars == <<uk_scale, constraints>>

linVars == <<grad_x, grad_buf, step_val, dphys, fphys, uploads, gpoint, fpoint>>

filterVars == <<mdl, raw, filt>>

solveVars == <<self, arg, loc, bind, mem, queue, tests, out, calls>>

regVars == <<irgn_par, selfpar, xnorm, execs>>

\* What the steps of _execute_3D leave alone besides their own frame.
tensorVars == <<voxel>>

sideVars == <<filterVars, solveVars, regVars, tensorVars>>

objVars == <<fval, fval_old, fval_init, gn_res>>

pdVars == <<x, x_new, xk, i, min_const, max_const, real_const>>

(***************************************************************************)
(* The signal model (models/DiffdirLL.py, IRLL_Model.py).                  *)
(***************************************************************************)
\* constraint.update(scale)
ConstraintUpdate(c, scale) ==
  [min |-> Div(c.min, scale), max |-> Div(c.max, scale), real |-> c.real]

\* S[~np.isfinite(S)] = 0 and grad[~np.isfinite(grad)] = 0
ZeroNonFinite(v) == IF IsFinite(v) THEN v ELSE Zero

\* The signal models of the repository.
Models == {"DiffdirLL", "Diffdir", "IRLL"}

\* What a model does to an entry before it returns the array: DiffdirLL and
\* Diffdir zero the non-finite entries, IRLL_Model returns S and grad as
\* they were computed.
ModelFilter(m, v) == IF m = "IRLL" THEN v ELSE ZeroNonFinite(v)

\* The parameter values the model evaluates: x[u] * uk_scale[u].
Physical(xx, sc) == [u \in Uk |-> Cx(Mul(xx[u].re, sc[u]), Mul(xx[u].im, sc[u]))]

PointIsFinite(xx, sc) ==
  \A u \in Uk : IsFinite(Physical(xx, sc)[u].re) /\ IsFinite(Physical(xx, sc)[u].im)

\* _execute_gradient_3D: each column is uk_scale[u] times the derivative with
\* respect to the physical parameter; non-finite entries are zeroed.
ExecuteGradient(m, d, sc) ==
  [u \in Uk |-> [s \in Scans |-> ModelFilter(m, Mul(sc[u], d[u][s]))]]

\* _execute_forward_3D: the signal of the physical parameters (NaN when one
\* of them is not finite); non-finite entries are zeroed.
ExecuteForward(m, f, xx, sc) ==
  [s \in Scans |-> ModelFilter(m, IF PointIsFinite(xx, sc) THEN f[s] ELSE NaN)]

\* rescale: M0 = x[0] * uk_scale[0], ADC_x = real(x[1]**2) * uk_scale[1]**2
Rescale(xx, sc) ==
  <<Cx(Mul(xx[1].re, sc[1]), Mul(xx[1].im, sc[1])),
    Cx(Mul(Sub(Mul(xx[2].re, xx[2].re), Mul(xx[2].im, xx[2].im)),
           Mul(sc[2], sc[2])), Zero)>>

(***************************************************************************)
(* ModelReco (irgn/reco.py).                                               *)
(***************************************************************************)
\* np.nan_to_num: NaN becomes 0, +Inf and -Inf the largest finite floats.
NanToNum(v) ==
  IF IsNaN(v) THEN Zero
  ELSE IF v = PInf THEN Rat(FLT_MAX)
  ELSE IF v = NInf THEN Rat(-FLT_MAX)
  ELSE v

RECURSIVE SumSq(_, _)
SumSq(col, n) == IF n = 0 THEN Zero ELSE Add(SumSq(col, n - 1), Mul(col[n], col[n]))

\* np.linalg.norm(column) squared
NormSq(col) == SumSq(col, NScan)

\* scale = 1e3 / np.sqrt(unknowns) / norm, computed as 1e3 / sqrt(unknowns * norm^2)
BalanceScale(col) == Div(Rat(1000), Sqrt(Mul(Rat(unknowns), NormSq(col))))

\* result[uk] *= uk_scale[uk]; uk_scale[uk] *= scale[uk]; result[uk] /= uk_scale[uk]
BalanceValue(v, sc, scale) == Div(Mul(v, sc), Mul(sc, scale))

\* grad_x[uk] /= uk_scale[uk]; uk_scale[uk] *= scale[uk]; grad_x[uk] *= uk_scale[uk]
BalanceGradient(g, sc, scale) == Mul(Div(g, sc), Mul(sc, scale))

\* "if not np.mod(ind, 1)": the GN indices at which the unknowns are rebalanced.
BalanceAt(ind) == ind % 1 = 0

\* self._fval of _calc_residual.  With one voxel the finite differences of x
\* are zero, which leaves the data term lambd / 2 * ||data - step_val||^2.
RECURSIVE ResidualSq(_, _)
ResidualSq(sv, n) ==
  IF n = 0 THEN Zero
  ELSE Add(ResidualSq(sv, n - 1), Mul(Sub(data[n], sv[n]), Sub(data[n], sv[n])))

CalcResidual(sv, lambd) == Mul(Div(lambd, Rat(2)), ResidualSq(sv, NScan))

\* The exit test without the absolute value: an increase of the objective
\* would end the loop.
GNConvergedSigned(fo, f, fi, tol) == Lt(Div(Sub(fo, f), fi), tol)

\* np.abs(self._fval_old - self._fval) / self._fval_init < irgn_par["tol"]
GNConverged(fo, f, fi, tol) == Lt(Div(Abs(Sub(fo, f)), fi), tol)

\* iters = np.fmin(iters * 2, irgn_par["max_iters"])
NextIters(it, mx) == IF it * 2 < mx THEN it * 2 ELSE mx

\* The dataset key if savetofile did not look at TV.
DatasetNameTgvOnly(TV, myit) == <<"tgv_result_iter_", myit>>

\* savetofile: the names of the dataset and of the attribute
DatasetName(TV, myit) == IF TV = 0 THEN <<"tgv_result_iter_", myit>> ELSE <<"tv_result_", myit>>

AttributeName(TV, myit) == IF TV = 0 THEN <<"res_tgv_iter_", myit>> ELSE <<"res_tv_iter_", myit>>

\* savetofile(myit, result, TV): create_dataset fails on a name that exists.
SaveToFile(f, myit, res, TV, fv) ==
  IF DatasetName(TV, myit) \in DOMAIN f.ds
  THEN [ok |-> FALSE, ds |-> f.ds, attrs |-> f.attrs]
  ELSE [ok |-> TRUE,
        ds |-> (DatasetName(TV, myit) :> res) @@ f.ds,
        attrs |-> (AttributeName(TV, myit) :> fv) @@ f.attrs]

\* _balance_model_gradients(result, ind)
BalanceModelGradients(res, g, sc, cons, ind) ==
  LET scale == [u \in Uk |-> BalanceScale(g[u])]
  IN  IF BalanceAt(ind)
      THEN [result |-> [u \in Uk |-> Cx(BalanceValue(res[u].re, sc[u], scale[u]),
                                        BalanceValue(res[u].im, sc[u], scale[u]))],
            grad_x |-> [u \in Uk |-> [s \in Scans |->
                          BalanceGradient(g[u][s], sc[u], scale[u])]],
            uk_scale |-> [u \in Uk |-> Mul(sc[u], scale[u])],
            constraints |-> [u \in Uk |-> ConstraintUpdate(cons[u], scale[u])],
            scale |-> scale]
      ELSE [result |-> res, grad_x |-> g, uk_scale |-> sc, constraints |-> cons,
            scale |-> scale]

(***************************************************************************)
(* The update_primal kernel (kernels/OpenCL_Kernels.c) and the operators   *)
(* of pyqmri.operator, as the specification describes them.                *)
(***************************************************************************)
\* Clamp to [mn, mx] by comparison; a NaN compares false and stays.
Clamp(v, mn, mx) == IF Lt(v, mn) THEN mn ELSE IF Lt(mx, v) THEN mx ELSE v

\* The projection of section 4.6: zero the imaginary part of a real unknown,
\* clamp the real part.
Project(z, mn, mx, rl) == Cx(Clamp(z.re, mn, mx), IF rl = 1 THEN Zero ELSE z.im)

\* A(x) = sum_u grad_x[u] * x[u] and its adjoint: a non-finite entry of
\* column u, or of x[u], makes the step of unknown u NaN.
StepValue(c, u, xx, gb) ==
  IF (\A s \in Scans : IsFinite(gb[u][s])) /\ IsFinite(xx[u].re) /\ IsFinite(xx[u].im)
  THEN c
  ELSE Cx(NaN, NaN)

\* The line search "while True: ... if lhs <= ynorm * delta_line: break" ends
\* only if the norms compare; with a NaN in them the comparison is never true.
LineSearchEnds(xn, gb) ==
  /\ \A u \in Uk : \A s \in Scans : IsFinite(gb[u][s])
  /\ \A u \in Uk : IsFinite(xn[u].re) /\ IsFinite(xn[u].im)

(***************************************************************************)
(* The step sizes and device arrays of the inner solvers.  The step sizes  *)
(* are irrational (1/sqrt(L)), so a step size is carried as the expression *)
(* that produced it: "id" tells which assignment wrote it (the iteration   *)
(* and the number of halvings), "def" the expression and the ids of its    *)
(* operands.  An array content is the kernel launch that wrote it.         *)
(***************************************************************************)
\* The line search may reject this many attempts of one iteration before the
\* inputs make it accept.
MaxHalvings == 1

\* A value written by the setup: a/b, or 1/sqrt(0.5*(a + sqrt(b))).
Known(kind, a, b) == [id |-> <<kind, a, b>>, def |-> <<"setup">>]

\* 1/np.sqrt(L) with L = 0.5*(a + np.sqrt(b)); 8 is 0.5*(16 + sqrt(0)).
InvSqrtL(a, b) == Known("1/sqrt(0.5*(a+sqrt(b)))", a, b)

\* np.zeros(...) and clarray.empty_like(...)
Zeros == <<"zeros">>

Empty == <<"empty">>

\* An attribute the object does not have.
Unset == <<"unset">>

\* _setup_reg_tmp_arrays(TV)
SetupRegTmpArrays(TV) ==
  IF TV = 1
  THEN [tau |-> InvSqrtL(16, 0), beta_line |-> Known("const", 400, 1),
        theta_line |-> Known("const", 1, 1),
        r |-> Zeros, z1 |-> Zeros, z2 |-> Unset, v |-> Unset]
  ELSE [tau |-> InvSqrtL(18, 33),
        beta_line |-> IF TV = 0 THEN Known("const", 400, 1) ELSE Known("const", 1, 1),
        theta_line |-> Known("const", 1, 1),
        r |-> Zeros, z1 |-> Zeros, z2 |-> Zeros, v |-> Zeros]

\* ModelReco.__init__: self._ratio = 1/unknowns for every unknown
InitRatio == [u \in Uk |-> Frac(1, unknowns)]

\* What grad_op.updateRatio(result) can leave as the ratio of the gradient
\* operator: the initial weights, or others.
RatioValues == {InitRatio, <<Frac(1, 4), Frac(3, 4)>>}

\* The object with its own ratio array and that of its gradient operator.
WithRatios(slf, gr) ==
  [f \in DOMAIN slf \cup {"ratio", "grad_ratio"} |->
     IF f = "ratio" THEN InitRatio ELSE IF f = "grad_ratio" THEN gr ELSE slf[f]]

\* No solver call has been made.
SolverIdle ==
  /\ arg = <<>>
  /\ loc = <<>>
  /\ bind = <<>>
  /\ mem = <<>>
  /\ queue = <<>>
  /\ tests = {}
  /\ out = <<>>
  /\ calls = 0

\* No voxel of a diffusion model is being evaluated.
TensorIdle == voxel = <<>>

\* The regularization schedule has not been touched.
ScheduleIdle ==
  /\ irgn_par = <<>>
  /\ selfpar = <<>>
  /\ xnorm = Zero
  /\ execs = 0

(***************************************************************************)
(* The state after construction and model setup.                          *)
(***************************************************************************)
ZeroColumns == [u \in Uk |-> [s \in Scans |-> Zero]]

ZeroMaps == [u \in Uk |-> Cx(Zero, Zero)]

\* model.guess: the first map from the image, the others one.
Guess == <<Cx(Rat(1), Rat(1)), Cx(Rat(1), Zero)>>

\* ModelReco.__init__ and the model's constructor: the constraints of the
\* first two unknowns of the diffusion model, uk_scale = 1 for every unknown.
Constructed ==
  /\ ign = 0
  /\ iters = cfg.start_iters
  /\ result = Guess
  /\ uk_scale = [u \in Uk |-> One]
  /\ constraints = <<[min |-> Rat(0), max |-> Rat(10), real |-> FALSE],
                     [min |-> Rat(-10), max |-> Rat(10), real |-> TRUE]>>
  /\ grad_x = ZeroColumns
  /\ grad_buf = ZeroColumns
  /\ step_val = [s \in Scans |-> Zero]
  /\ fval = Zero
  /\ fval_old = Zero
  /\ fval_init = Zero
  /\ gn_res = <<>>
  /\ x = ZeroMaps
  /\ x_new = ZeroMaps
  /\ xk = ZeroMaps
  /\ i = 0
  /\ min_const = [u \in Uk |-> Zero]
  /\ max_const = [u \in Uk |-> Zero]
  /\ real_const = [u \in Uk |-> 0]
  /\ file = [ds |-> <<>>, attrs |-> <<>>]
  /\ dphys = ZeroColumns
  /\ fphys = [s \in Scans |-> Zero]
  /\ uploads = 0
  /\ gpoint = <<>>
  /\ fpoint = <<>>

\* execute(TV) of a 3-D reconstruction with the diffusion model.
Init ==
  /\ cfg \in Configs
  /\ pc = "gn_grad"
  /\ mdl = "DiffdirLL"
  /\ raw = <<Zero, Zero>>
  /\ filt = <<Zero, Zero>>
  /\ self = WithRatios(SetupRegTmpArrays(cfg.TV), InitRatio)
  /\ SolverIdle
  /\ TensorIdle
  /\ ScheduleIdle
  /\ Constructed

(***************************************************************************)
(* One GN step of _execute_3D.                                             *)
(***************************************************************************)
\* self.grad_x = np.nan_to_num(self.model.execute_gradient(result))
GnGradient ==
  /\ pc = "gn_grad"
  /\ \E d \in JacobianValues :
       /\ dphys' = d
       /\ grad_x' = [u \in Uk |-> [s \in Scans |->
                       NanToNum(ExecuteGradient(mdl, d, uk_scale)[u][s])]]
  /\ gpoint' = Physical(result, uk_scale)
  /\ uploads' = 0
  /\ pc' = "gn_balance"
  /\ UNCHANGED <<sideVars, cfg, ign, iters, result, modelVars, grad_buf, step_val, fphys,
                 fpoint, objVars, pdVars, file>>

\* self._balance_model_gradients(result, ign)
GnBalance ==
  /\ pc = "gn_balance"
  /\ LET b == BalanceModelGradients(result, grad_x, uk_scale, constraints, ign)
     IN  /\ result' = b.result
         /\ grad_x' = b.grad_x
         /\ uk_scale' = b.uk_scale
         /\ constraints' = b.constraints
  /\ pc' = "gn_forward"
  /\ UNCHANGED <<sideVars, cfg, ign, iters, grad_buf, step_val, dphys, fphys, uploads,
                 gpoint, fpoint, objVars, pdVars, file>>

\* The upload of grad_x: self.grad_buf = cl.Buffer(..., hostbuf=self.grad_x.data)
UploadGradient(g) == g

\* self.step_val = np.nan_to_num(self.model.execute_forward(result));
\* self.grad_buf = cl.Buffer(...).  The model is a function: called again with
\* the parameters of its last call it returns the same signal.
GnForward ==
  /\ pc = "gn_forward"
  /\ \E f \in ForwardValues :
       /\ Physical(result, uk_scale) = fpoint => f = fphys
       /\ fphys' = f
       /\ step_val' = [s \in Scans |->
                         NanToNum(ExecuteForward(mdl, f, result, uk_scale)[s])]
  /\ fpoint' = Physical(result, uk_scale)
  /\ grad_buf' = UploadGradient(grad_x)
  /\ uploads' = uploads + 1
  /\ pc' = "gn_solve"
  /\ UNCHANGED <<sideVars, cfg, ign, iters, result, modelVars, grad_x, dphys, gpoint,
                 objVars, pdVars, file>>

\* irgn_solve_3D up to the call of the inner solver: _calc_residual(x, data, GN_it, TV)
IrgnSolve ==
  /\ pc = "gn_solve"
  /\ fval' = CalcResidual(step_val, cfg.lambd)
  /\ fval_init' = IF ign = 0 THEN fval' ELSE fval_init
  /\ pc' = "pd_entry"
  /\ UNCHANGED <<sideVars, cfg, ign, iters, result, modelVars, linVars, fval_old, gn_res,
                 pdVars, file>>

\* _eval_const: the constraints as the model holds them now
EvalConst(cons) ==
  [min |-> [u \in Uk |-> cons[u].min],
   max |-> [u \in Uk |-> cons[u].max],
   real |-> [u \in Uk |-> IF cons[u].real THEN 1 ELSE 0]]

\* tgv_solve_3D / tv_solve_3D before the loop: x, xk = x.copy(), _eval_const()
SolveEntry ==
  /\ pc = "pd_entry"
  /\ x' = result
  /\ xk' = result
  /\ i' = 0
  /\ min_const' = EvalConst(constraints).min
  /\ max_const' = EvalConst(constraints).max
  /\ real_const' = EvalConst(constraints).real
  /\ pc' = "pd_primal"
  /\ UNCHANGED <<sideVars, cfg, ign, iters, result, modelVars, linVars, objVars, x_new, file>>

\* x_new.add_event(self.update_primal(x_new, x, Kyk1, xk, tau, delta))
UpdatePrimal ==
  /\ pc = "pd_primal"
  /\ \E c \in PrimalValues :
       x_new' = [u \in Uk |-> Project(StepValue(c[u], u, x, grad_buf),
                                      min_const[u], max_const[u], real_const[u])]
  /\ pc' = "pd_dual"
  /\ UNCHANGED <<sideVars, cfg, ign, iters, result, modelVars, linVars, objVars, x, xk, i,
                 min_const, max_const, real_const, file>>

\* The dual updates and the line search of one inner iteration.
LineSearch ==
  /\ pc = "pd_dual"
  /\ pc' = IF LineSearchEnds(x_new, grad_buf) THEN "pd_check" ELSE "pd_hang"
  /\ UNCHANGED <<sideVars, cfg, ign, iters, result, modelVars, linVars, objVars, pdVars, file>>

\* One of the three termination rules holds at an objective check:
\* return x_new.get(); the locals of the solver end with the call.
SolveTerminate ==
  /\ pc = "pd_check"
  /\ i % CheckEvery = 0
  /\ result' = x_new
  /\ x' = ZeroMaps /\ x_new' = ZeroMaps /\ xk' = ZeroMaps /\ i' = 0
  /\ pc' = "gn_post"
  /\ UNCHANGED <<sideVars, cfg, ign, iters, modelVars, linVars, objVars, min_const,
                 max_const, real_const, file>>

\* (x, x_new) = (x_new, x) and the next iteration
SolveSwap ==
  /\ pc = "pd_check"
  /\ x' = x_new
  /\ x_new' = x
  /\ i' = i + 1
  /\ pc' = IF i + 1 < iters THEN "pd_primal" ELSE "pd_return"
  /\ UNCHANGED <<sideVars, cfg, ign, iters, result, modelVars, linVars, objVars, xk,
                 min_const, max_const, real_const, file>>

\* The loop ran out: return x.get(); the locals of the solver end with the call.
SolveReturn ==
  /\ pc = "pd_return"
  /\ result' = x
  /\ x' = ZeroMaps /\ x_new' = ZeroMaps /\ xk' = ZeroMaps /\ i' = 0
  /\ pc' = "gn_post"
  /\ UNCHANGED <<sideVars, cfg, ign, iters, modelVars, linVars, objVars, min_const,
                 max_const, real_const, file>>

\* After the solve, the energy decrease is below tol: the residual is
\* computed again, the result saved and the loop left.
GnTerminate ==
  /\ pc = "gn_post"
  /\ GNConverged(fval_old, fval, fval_init, cfg.tol)
  /\ iters' = NextIters(iters, cfg.max_iters)
  /\ gn_res' = Append(gn_res, fval)
  /\ fval' = CalcResidual(step_val, cfg.lambd)
  /\ LET sv == SaveToFile(file, ign, Rescale(result, uk_scale), cfg.TV, fval')
     IN  /\ file' = [ds |-> sv.ds, attrs |-> sv.attrs]
         /\ pc' = IF sv.ok THEN "gn_final" ELSE "error"
  /\ UNCHANGED <<sideVars, cfg, ign, result, modelVars, linVars, fval_old, fval_init, pdVars>>

\* After the solve, otherwise: _fval_old = _fval, the result is saved and the
\* loop goes on while ign + 1 < max_gn_it.
GnContinue ==
  /\ pc = "gn_post"
  /\ ~GNConverged(fval_old, fval, fval_init, cfg.tol)
  /\ iters' = NextIters(iters, cfg.max_iters)
  /\ gn_res' = Append(gn_res, fval)
  /\ fval_old' = fval
  /\ LET sv == SaveToFile(file, ign, Rescale(result, uk_scale), cfg.TV, fval)
     IN  /\ file' = [ds |-> sv.ds, attrs |-> sv.attrs]
         /\ pc' = IF ~sv.ok THEN "error"
                  ELSE IF ign + 1 < cfg.max_gn_it THEN "gn_grad" ELSE "gn_final"
  /\ ign' = IF ign + 1 < cfg.max_gn_it THEN ign + 1 ELSE ign
  /\ UNCHANGED <<sideVars, cfg, result, modelVars, linVars, fval, fval_init, pdVars>>

\* self.calc_residual(result, self.data, ign+1, TV) after the loop
GnFinal ==
  /\ pc = "gn_final"
  /\ fval' = CalcResidual(step_val, cfg.lambd)
  /\ pc' = "done"
  /\ UNCHANGED <<sideVars, cfg, ign, iters, result, modelVars, linVars, fval_old, fval_init,
                 gn_res, pdVars, file>>

Next ==
  \/ GnGradient
  \/ GnBalance
  \/ GnForward
  \/ IrgnSolve
  \/ SolveEntry
  \/ UpdatePrimal
  \/ LineSearch
  \/ SolveTerminate
  \/ SolveSwap
  \/ SolveReturn
  \/ GnTerminate
  \/ GnContinue
  \/ GnFinal

Spec == Init /\ [][Next]_vars

(***************************************************************************)
(* The way of one array entry from the model's expression to the GN step:  *)
(* the model's own filter, then np.nan_to_num in _execute_3D.              *)
(***************************************************************************)
\* Entries an analytic expression can produce.
RawValues == {Rat(3), Rat(-3), Zero, NaN, PInf, NInf}

mainVars ==
  <<cfg, ign, iters, result, modelVars, linVars, objVars, pdVars, file>>

InitFilter ==
  /\ cfg = [TV |-> 0, start_iters |-> 1, max_iters |-> 1, max_gn_it |-> 1,
            tol |-> Frac(1, 2), lambd |-> Rat(2)]
  /\ pc = "f_raw"
  /\ mdl \in Models
  /\ raw \in RawValues \X RawValues
  /\ filt = raw
  /\ self = WithRatios(SetupRegTmpArrays(cfg.TV), InitRatio)
  /\ SolverIdle
  /\ TensorIdle
  /\ ScheduleIdle
  /\ Constructed

\* model.execute_forward / model.execute_gradient return the array
ModelExecute ==
  /\ pc = "f_raw"
  /\ filt' = [j \in DOMAIN raw |-> ModelFilter(mdl, raw[j])]
  /\ pc' = "f_model"
  /\ UNCHANGED <<mainVars, tensorVars, solveVars, regVars, mdl, raw>>

\* np.nan_to_num(...) of the returned array; the result is what the step uses
ReconNanToNum ==
  /\ pc = "f_model"
  /\ filt' = [j \in DOMAIN filt |-> NanToNum(filt[j])]
  /\ pc' = "f_used"
  /\ UNCHANGED <<mainVars, tensorVars, solveVars, regVars, mdl, raw>>

NextFilter ==
  \/ ModelExecute
  \/ ReconNanToNum

SpecFilter == InitFilter /\ [][NextFilter]_vars

(***************************************************************************)
(* tgv_solve_3D and tv_solve_3D statement by statement: the calls the GN   *)
(* loop makes to the inner solver, one after the other on the same object. *)
(***************************************************************************)
\* Iteration budgets of a call: the last one reaches the second objective
\* check, at i = CheckEvery.
SolveIters == {1, 2, CheckEvery + 1}

\* Values of the primal and of the dual objective at a check.
PrimalObjectives == {Rat(1), Rat(8), Rat(16)}

DualObjectives == {Zero, Rat(6)}

\* irgn_par["tol"], irgn_par["stag"] and self._fval_init of a call.
SolveParams == [tol : {Frac(1, 2), Frac(3, 2)}, stag : {Rat(2)}, fval_init : {Rat(4)}]

\* The Python names of the device arrays of a solve.
ArrayNames(TV) ==
  {"x", "xk", "x_new", "r", "r_new", "z1", "z1_new", "Kyk1", "Kyk1_new",
   "gradx", "gradx_xold", "Axold", "Ax"}
  \cup (IF TV = 1 THEN {}
        ELSE {"z2", "z2_new", "v", "v_new", "Kyk2", "Kyk2_new", "symgrad_v",
              "symgrad_v_vold"})

\* np.zeros_like(a): zeros of the shape of a, whatever a holds
ZerosLikeCopy(a) == a

ZerosLike(a) == Zeros

\* The operators, each result named by the operator and its operands.
OpFwd(c) == <<"op.fwd", c>>

\* the gradient with the operator's own ratio
GradFwd(c, ratio) == <<"grad_op.fwd", c, ratio>>

SymgradFwd(c) == <<"symgrad_op.fwd", c>>

\* the fused adjoint with the ratio array it is handed
AdjKyk1(rr, zz, ratio) == <<"op.adjKyk1", rr, zz, ratio>>

UpdateKyk2(z2c, z1c) == <<"update_Kyk2", z2c, z1c>>

\* The update kernels: launch number n of the call c
KPrimal(c, n) == <<"update_primal", c, n>>

KV(c, n) == <<"update_v", c, n>>

\* update_z1 / update_z2 / update_r(..., beta_line * tau_new, theta_line, ...)
KDual(kernel, c, beta, taun, theta) == <<kernel, c, beta.id, taun.id, theta.id>>

\* beta_new from the tau_new of the iteration instead of the accepted tau
BetaNewFromTentative(beta, t, n) ==
  [id |-> <<"beta_new", n, 0>>,
   def |-> <<"beta_line*(1+mu*tau)", beta.id, <<"tau_new", n, 0>>>>]

\* beta_new = beta_line * (1 + mu * tau)
BetaNew(beta, t, n) ==
  [id |-> <<"beta_new", n, 0>>, def |-> <<"beta_line*(1+mu*tau)", beta.id, t.id>>]

\* tau_new = tau * np.sqrt(beta_line / beta_new * (1 + theta_line))
TauNewInverted(t, beta, betan, theta, n) ==
  [id |-> <<"tau_new", n, 0>>,
   def |-> <<"tau*sqrt(beta_line/beta_new*(1+theta_line))", t.id, betan.id, beta.id, theta.id>>]

TauNew(t, beta, betan, theta, n) ==
  [id |-> <<"tau_new", n, 0>>,
   def |-> <<"tau*sqrt(beta_line/beta_new*(1+theta_line))", t.id, beta.id, betan.id, theta.id>>]

\* The number of times a tau_new was multiplied by mu_line = 0.5; beyond
\* MaxHalvings stands for the value 0.0 the halvings end in.
Halvings(t) == t.id[3]

Underflowed(t) == Halvings(t) > MaxHalvings

\* tau_new = tau_new * mu_line; the halvings after the MaxHalvings-th, down
\* to the underflow to 0.0, are taken as one, and 0.0 * 0.5 = 0.0.
Halve(t) == IF Underflowed(t) THEN t ELSE [t EXCEPT !.id[3] = @ + 1]

\* theta_line = tau_new / tau
ThetaLine(taun, t) ==
  [id |-> <<"theta_line", taun.id[2], taun.id[3]>>, def |-> <<"tau_new/tau", taun.id, t.id>>]

\* What "lhs <= ynorm * delta_line" can evaluate to: with a NaN in the norms
\* it is false; with finite norms the inputs accept at the latest after
\* MaxHalvings halvings.
TestOutcomes(finite, taun) ==
  IF ~finite THEN {FALSE}
  ELSE IF Halvings(taun) < MaxHalvings THEN BOOLEAN ELSE {TRUE}

\* The content seen under a Python name.
Val(n) == mem[bind[n]]

\* The memory after the kernels wrote their targets: w maps names to contents
Written(w) == [a \in DOMAIN mem |->
                 IF \E n \in DOMAIN w : bind[n] = a
                 THEN w[CHOOSE n \in DOMAIN w : bind[n] = a]
                 ELSE mem[a]]

\* The tuple assignment without the exchange of Ax and Axold
DualSwapKeepingAx(TV) ==
  [n \in {"Kyk1", "Kyk1_new", "z1", "z1_new", "r", "r_new", "gradx_xold", "gradx"}
         \cup (IF TV = 1 THEN {}
               ELSE {"Kyk2", "Kyk2_new", "z2", "z2_new", "symgrad_v_vold",
                     "symgrad_v"}) |->
     CASE n = "Kyk1" -> "Kyk1_new" [] n = "Kyk1_new" -> "Kyk1"
       [] n = "Kyk2" -> "Kyk2_new" [] n = "Kyk2_new" -> "Kyk2"
       [] n = "z1" -> "z1_new" [] n = "z1_new" -> "z1"
       [] n = "z2" -> "z2_new" [] n = "z2_new" -> "z2"
       [] n = "r" -> "r_new" [] n = "r_new" -> "r"
       [] n = "gradx_xold" -> "gradx" [] n = "gradx" -> "gradx_xold"
       [] n = "symgrad_v_vold" -> "symgrad_v" [] n = "symgrad_v" -> "symgrad_v_vold"]

\* The tuple assignment after the line search, as old name -> new name.
DualSwap(TV) ==
  [n \in {"Kyk1", "Kyk1_new", "Axold", "Ax", "z1", "z1_new", "r", "r_new",
          "gradx_xold", "gradx"}
         \cup (IF TV = 1 THEN {}
               ELSE {"Kyk2", "Kyk2_new", "z2", "z2_new", "symgrad_v_vold",
                     "symgrad_v"}) |->
     CASE n = "Kyk1" -> "Kyk1_new" [] n = "Kyk1_new" -> "Kyk1"
       [] n = "Kyk2" -> "Kyk2_new" [] n = "Kyk2_new" -> "Kyk2"
       [] n = "Axold" -> "Ax" [] n = "Ax" -> "Axold"
       [] n = "z1" -> "z1_new" [] n = "z1_new" -> "z1"
       [] n = "z2" -> "z2_new" [] n = "z2_new" -> "z2"
       [] n = "r" -> "r_new" [] n = "r_new" -> "r"
       [] n = "gradx_xold" -> "gradx" [] n = "gradx" -> "gradx_xold"
       [] n = "symgrad_v_vold" -> "symgrad_v" [] n = "symgrad_v" -> "symgrad_v_vold"]

\* x = x_new and v = v_new without the exchange
PrimalSwapOneWay(TV) ==
  [n \in {"x"} \cup (IF TV = 1 THEN {} ELSE {"v"}) |->
     CASE n = "x" -> "x_new" [] n = "v" -> "v_new"]

\* (x, x_new) = (x_new, x) and, for TGV, (v, v_new) = (v_new, v)
PrimalSwap(TV) ==
  [n \in {"x", "x_new"} \cup (IF TV = 1 THEN {} ELSE {"v", "v_new"}) |->
     CASE n = "x" -> "x_new" [] n = "x_new" -> "x"
       [] n = "v" -> "v_new" [] n = "v_new" -> "v"]

\* The bindings after a tuple assignment sw.
Rebound(sw) == [n \in DOMAIN bind |-> IF n \in DOMAIN sw THEN bind[sw[n]] ELSE bind[n]]

\* The position after a step of the loop body, in program order.
FollowingForwardFirst(step, TV) ==
  CASE step = "update_primal" -> "s_fwd"
    [] step = "forward" -> IF TV = 1 THEN "s_step" ELSE "s_v"
    [] step = "update_v" -> "s_step"
    [] step = "step_sizes" -> "s_dual"

Following(step, TV) ==
  CASE step = "update_primal" -> IF TV = 1 THEN "s_step" ELSE "s_v"
    [] step = "update_v" -> "s_step"
    [] step = "step_sizes" -> "s_fwd"
    [] step = "forward" -> "s_dual"

\* The three termination rules at an objective check, in program order;
\* "none" if the loop goes on.
EarlyExitUnguarded(l, a) ==
  IF Lt(Div(Abs(Sub(l.primal, l.primal_new)), a.fval_init), a.tol) THEN "primal"
  ELSE IF Lt(Mul(l.gap_old, a.stag), l.gap) THEN "stagnation"
  ELSE IF Lt(Abs(Div(Sub(l.gap, l.gap_old), l.gap_init)), a.tol) THEN "gap"
  ELSE "none"

EarlyExit(l, a) ==
  IF Lt(Div(Abs(Sub(l.primal, l.primal_new)), a.fval_init), a.tol) THEN "primal"
  ELSE IF Lt(Mul(l.gap_old, a.stag), l.gap) /\ l.i > 1 THEN "stagnation"
  ELSE IF Lt(Abs(Div(Sub(l.gap, l.gap_old), l.gap_init)), a.tol) THEN "gap"
  ELSE "none"

\* self.v = ..., self.r = r.get(), self.z1 = z1.get(), self.z2 = z2.get()
\* before a return; vname is the array the v comes from.
StoreDuals(TV, vname) ==
  IF TV = 1
  THEN [self EXCEPT !.r = Val("r"), !.z1 = Val("z1")]
  ELSE [self EXCEPT !.v = Val(vname), !.r = Val("r"), !.z1 = Val("z1"),
                    !.z2 = Val("z2")]

\* The arguments and parameters of the first call, with the initial guess.
FirstCalls ==
  {[TV |-> t, x |-> <<"guess">>, iters |-> n, finite |-> f, tol |-> p.tol,
    stag |-> p.stag, fval_init |-> p.fval_init] :
     t \in {0, 1}, n \in SolveIters, f \in BOOLEAN, p \in SolveParams}

\* A later call: the same configuration and _fval_init, the iterate xc, a
\* new linearization and one of the short budgets.
LaterCalls(a, xc) ==
  {[a EXCEPT !.x = xc, !.iters = n, !.finite = f] :
     n \in SolveIters \ {CheckEvery + 1}, f \in BOOLEAN}

\* _execute_3D has run _setup_reg_tmp_arrays(TV) and calls the solver with
\* the initial guess.
InitSolve ==
  /\ cfg = [TV |-> 0, start_iters |-> 1, max_iters |-> 1, max_gn_it |-> 1,
            tol |-> Frac(1, 2), lambd |-> Rat(2)]
  /\ pc = "s_call"
  /\ mdl = "DiffdirLL"
  /\ raw = <<Zero, Zero>>
  /\ filt = <<Zero, Zero>>
  /\ Constructed
  /\ arg \in FirstCalls
  /\ \E gr \in RatioValues : self = WithRatios(SetupRegTmpArrays(arg.TV), gr)
  /\ loc = <<>>
  /\ bind = <<>>
  /\ mem = <<>>
  /\ queue = <<>>
  /\ tests = {}
  /\ out = <<>>
  /\ calls = 1
  /\ ScheduleIdle
  /\ TensorIdle

\* The contents after the statements before the loop.
EntryMemory(TV, xc, slf) ==
  [a \in ArrayNames(TV) |->
     CASE a = "x" -> xc
       [] a = "xk" -> xc
       [] a = "r" -> ZerosLike(slf.r)
       [] a = "z1" -> ZerosLike(slf.z1)
       [] a = "z2" -> ZerosLike(slf.z2)
       [] a = "v" -> ZerosLike(slf.v)
       [] a = "Axold" -> OpFwd(xc)
       [] a = "gradx_xold" -> IF TV = 1 THEN Empty ELSE GradFwd(xc, slf.grad_ratio)
       [] a = "symgrad_v_vold" -> SymgradFwd(ZerosLike(slf.v))
       [] a = "Kyk1" -> AdjKyk1(ZerosLike(slf.r), ZerosLike(slf.z1), slf.ratio)
       [] a = "Kyk2" -> UpdateKyk2(ZerosLike(slf.z2), ZerosLike(slf.z1))
       [] OTHER -> Empty]

\* The dual updates of a pass written over the accepted arrays
DualUpdatesInPlace(TV, c, beta, taun, th, ratio) ==
  LET d(kernel) == KDual(kernel, c, beta, taun, th)
  IN [n \in {"z1", "r", "Kyk1"} \cup (IF TV = 1 THEN {} ELSE {"z2", "Kyk2"}) |->
        CASE n = "z1" -> d("update_z1")
          [] n = "z2" -> d("update_z2")
          [] n = "r" -> d("update_r")
          [] n = "Kyk1" -> AdjKyk1(d("update_r"), d("update_z1"), ratio)
          [] n = "Kyk2" -> UpdateKyk2(d("update_z2"), d("update_z1"))]

\* The arrays a pass of the line search writes, with what it writes: the
\* tentative duals and their adjoint images.
DualUpdates(TV, c, beta, taun, th, ratio) ==
  LET d(kernel) == KDual(kernel, c, beta, taun, th)
  IN [n \in {"z1_new", "r_new", "Kyk1_new"}
            \cup (IF TV = 1 THEN {} ELSE {"z2_new", "Kyk2_new"}) |->
        CASE n = "z1_new" -> d("update_z1")
          [] n = "z2_new" -> d("update_z2")
          [] n = "r_new" -> d("update_r")
          [] n = "Kyk1_new" -> AdjKyk1(d("update_r"), d("update_z1"), ratio)
          [] n = "Kyk2_new" -> UpdateKyk2(d("update_z2"), d("update_z1"))]

\* What the terms of primal_new are computed from: Axold - res, gradx - v
\* (gradx alone for TV), symgrad_v (TGV) and x_new - xk, as the names are
\* bound when the objective is evaluated.
PrimalTerms(TV) ==
  IF TV = 1
  THEN [data |-> Val("Axold"), grad |-> Val("gradx"),
        prox |-> <<Val("x_new"), Val("xk")>>]
  ELSE [data |-> Val("Axold"), grad |-> Val("gradx"), v |-> Val("v"),
        symgrad |-> Val("symgrad_v"), prox |-> <<Val("x_new"), Val("xk")>>]

\* tgv_solve_3D / tv_solve_3D up to the loop
PdEntry ==
  /\ pc = "s_call"
  /\ loc' = [i |-> 0, tau |-> self.tau, tau_new |-> Known("const", 0, 1),
             beta_line |-> self.beta_line, beta_new |-> Known("const", 0, 1),
             theta_line |-> self.theta_line, primal |-> Zero,
             primal_new |-> Zero, dual |-> Zero, gap_init |-> Zero,
             gap_old |-> Zero, gap |-> Zero, terms |-> <<>>]
  /\ bind' = [n \in ArrayNames(arg.TV) |-> n]
  /\ mem' = EntryMemory(arg.TV, arg.x, self)
  /\ queue' = <<>>
  /\ tests' = {}
  /\ pc' = IF arg.iters > 0 THEN "s_primal" ELSE "s_exhaust"
  /\ UNCHANGED <<mainVars, tensorVars, filterVars, regVars, self, arg, out, calls>>

\* x_new.add_event(self.update_primal(x_new, x, Kyk1, xk, tau, delta))
PdUpdatePrimal ==
  /\ pc = "s_primal"
  /\ mem' = Written([n \in {"x_new"} |-> KPrimal(calls, loc.i)])
  /\ queue' = << <<"update_primal", "x_new", loc.i>> >>
  /\ pc' = Following("update_primal", arg.TV)
  /\ UNCHANGED <<mainVars, tensorVars, filterVars, regVars, self, arg, loc, bind, tests, out, calls>>

\* v_new.add_event(self.update_v(v_new, v, Kyk2, tau))
PdUpdateV ==
  /\ pc = "s_v"
  /\ mem' = Written([n \in {"v_new"} |-> KV(calls, loc.i)])
  /\ queue' = Append(queue, <<"update_v", "v_new", loc.i>>)
  /\ pc' = Following("update_v", arg.TV)
  /\ UNCHANGED <<mainVars, tensorVars, filterVars, regVars, self, arg, loc, bind, tests, out, calls>>

\* beta_new = ...; tau_new = ...; beta_line = beta_new
PdStepSizes ==
  /\ pc = "s_step"
  /\ LET bn == BetaNew(loc.beta_line, loc.tau, loc.i)
     IN loc' = [loc EXCEPT !.beta_new = bn,
                           !.tau_new = TauNew(loc.tau, loc.beta_line, bn,
                                              loc.theta_line, loc.i),
                           !.beta_line = bn]
  /\ tests' = {}
  /\ pc' = Following("step_sizes", arg.TV)
  /\ UNCHANGED <<mainVars, tensorVars, filterVars, regVars, self, arg, bind, mem, queue, out, calls>>

\* gradx = G x_new, symgrad_v = E v_new (TGV), gradx_xold = G x (TV),
\* Ax = A x_new
PdForward ==
  /\ pc = "s_fwd"
  /\ mem' = Written(
       [n \in {"gradx", "Ax"}
              \cup (IF arg.TV = 1 THEN {"gradx_xold"} ELSE {"symgrad_v"}) |->
          CASE n = "gradx" -> GradFwd(Val("x_new"), self.grad_ratio)
            [] n = "Ax" -> OpFwd(Val("x_new"))
            [] n = "gradx_xold" -> GradFwd(Val("x"), self.grad_ratio)
            [] n = "symgrad_v" -> SymgradFwd(Val("v_new"))])
  /\ queue' = queue \o
       (IF arg.TV = 1
        THEN << <<"grad_op.fwd", "gradx", loc.i>>, <<"grad_op.fwd", "gradx_xold", loc.i>>,
                <<"op.fwd", "Ax", loc.i>> >>
        ELSE << <<"grad_op.fwd", "gradx", loc.i>>, <<"symgrad_op.fwd", "symgrad_v", loc.i>>,
                <<"op.fwd", "Ax", loc.i>> >>)
  /\ pc' = Following("forward", arg.TV)
  /\ UNCHANGED <<mainVars, tensorVars, filterVars, regVars, self, arg, loc, bind, tests, out, calls>>

\* One pass of the body of "while True" up to the norms: theta_line, the
\* tentative duals and their adjoint images.
PdDualAttempt ==
  /\ pc = "s_dual"
  /\ LET th == ThetaLine(loc.tau_new, loc.tau)
     IN /\ loc' = [loc EXCEPT !.theta_line = th]
        /\ mem' = Written(DualUpdates(arg.TV, calls, loc.beta_line, loc.tau_new,
                                      th, self.ratio))
  /\ queue' = IF Underflowed(loc.tau_new) THEN queue
              ELSE queue \o
                (IF arg.TV = 1
                 THEN << <<"update_z1", "z1_new", loc.i>>, <<"update_r", "r_new", loc.i>>,
                         <<"op.adjKyk1", "Kyk1_new", loc.i>> >>
                 ELSE << <<"update_z1", "z1_new", loc.i>>, <<"update_z2", "z2_new", loc.i>>,
                         <<"update_r", "r_new", loc.i>>, <<"op.adjKyk1", "Kyk1_new", loc.i>>,
                         <<"update_Kyk2", "Kyk2_new", loc.i>> >>)
  /\ pc' = "s_test"
  /\ UNCHANGED <<mainVars, tensorVars, filterVars, regVars, self, arg, bind, tests, out, calls>>

\* if lhs <= ynorm * delta_line: break / else: tau_new = tau_new * mu_line
PdLineSearchTest ==
  /\ pc = "s_test"
  /\ \E ok \in TestOutcomes(arg.finite, loc.tau_new) :
       /\ tests' = tests \cup {<<loc.tau_new.id, ok>>}
       /\ loc' = IF ok THEN loc ELSE [loc EXCEPT !.tau_new = Halve(loc.tau_new)]
       /\ pc' = IF ok THEN "s_swap" ELSE "s_dual"
  /\ UNCHANGED <<mainVars, tensorVars, filterVars, regVars, self, arg, bind, mem, queue, out, calls>>

\* The tuple assignment that rolls the duals, their images and tau.
PdSwapDuals ==
  /\ pc = "s_swap"
  /\ bind' = Rebound(DualSwap(arg.TV))
  /\ loc' = [loc EXCEPT !.tau = loc.tau_new]
  /\ queue' = Append(queue, <<"swap", "duals", loc.i>>)
  /\ pc' = IF loc.i % CheckEvery = 0 THEN "s_check" ELSE "s_swapx"
  /\ UNCHANGED <<mainVars, tensorVars, filterVars, regVars, self, arg, mem, tests, out, calls>>

\* primal_new, dual, gap and gap_init of an objective check
PdObjective ==
  /\ pc = "s_check"
  /\ \E P \in PrimalObjectives, D \in DualObjectives :
       loc' = [loc EXCEPT !.primal_new = P, !.dual = D,
                          !.terms = PrimalTerms(arg.TV),
                          !.gap = Abs(Sub(P, D)),
                          !.gap_init = IF loc.i = 0 THEN Abs(Sub(P, D)) ELSE @]
  /\ queue' = Append(queue, <<"objective", "gap", loc.i>>)
  /\ pc' = "s_rules"
  /\ UNCHANGED <<mainVars, tensorVars, filterVars, regVars, self, arg, bind, mem, tests, out, calls>>

\* One of the three rules holds: store the duals, return x_new.get()
PdReturnEarly ==
  /\ pc = "s_rules"
  /\ EarlyExit(loc, arg) # "none"
  /\ self' = StoreDuals(arg.TV, "v_new")
  /\ out' = [x |-> Val("x_new"), why |-> EarlyExit(loc, arg)]
  /\ pc' = "s_done"
  /\ UNCHANGED <<mainVars, tensorVars, filterVars, regVars, arg, loc, bind, mem, queue, tests, calls>>

\* None holds: primal = primal_new; gap_old = gap
PdContinue ==
  /\ pc = "s_rules"
  /\ EarlyExit(loc, arg) = "none"
  /\ loc' = [loc EXCEPT !.primal = loc.primal_new, !.gap_old = loc.gap]
  /\ pc' = "s_swapx"
  /\ UNCHANGED <<mainVars, tensorVars, filterVars, regVars, self, arg, bind, mem, queue, tests, out, calls>>

\* (x, x_new) = (x_new, x); (v, v_new) = (v_new, v); the next i of range(iters)
PdSwapPrimal ==
  /\ pc = "s_swapx"
  /\ bind' = Rebound(PrimalSwap(arg.TV))
  /\ loc' = [loc EXCEPT !.i = loc.i + 1]
  /\ queue' = Append(queue, <<"swap", "primal", loc.i>>)
  /\ pc' = IF loc.i + 1 < arg.iters THEN "s_primal" ELSE "s_exhaust"
  /\ UNCHANGED <<mainVars, tensorVars, filterVars, regVars, self, arg, mem, tests, out, calls>>

\* The loop ran out: store the duals, return x.get()
PdReturn ==
  /\ pc = "s_exhaust"
  /\ self' = StoreDuals(arg.TV, "v")
  /\ out' = [x |-> Val("x"), why |-> "iters"]
  /\ pc' = "s_done"
  /\ UNCHANGED <<mainVars, tensorVars, filterVars, regVars, arg, loc, bind, mem, queue, tests, calls>>

\* The next GN step: grad_op.updateRatio(result), then the solver of the
\* same TV is called with the returned iterate.
PdCallAgain ==
  /\ pc = "s_done"
  /\ calls < MaxGnIt
  /\ arg' \in LaterCalls(arg, out.x)
  /\ \E gr \in RatioValues : self' = [self EXCEPT !.grad_ratio = gr]
  /\ calls' = calls + 1
  /\ pc' = "s_call"
  /\ UNCHANGED <<mainVars, tensorVars, filterVars, regVars, loc, bind, mem, queue, tests, out>>

NextSolve ==
  \/ PdEntry
  \/ PdUpdatePrimal
  \/ PdUpdateV
  \/ PdStepSizes
  \/ PdForward
  \/ PdDualAttempt
  \/ PdLineSearchTest
  \/ PdSwapDuals
  \/ PdObjective
  \/ PdReturnEarly
  \/ PdContinue
  \/ PdSwapPrimal
  \/ PdReturn
  \/ PdCallAgain

SpecSolve == InitSolve /\ [][NextSolve]_vars

(***************************************************************************)
(* The regularization schedule: execute captures the configured values,    *)
(* _update_reg_par overwrites the entries of irgn_par at every GN step.    *)
(***************************************************************************)
\* a ** n
RECURSIVE Pow(_, _)
Pow(a, n) == IF n = 0 THEN One ELSE Mul(a, Pow(a, n - 1))

\* np.minimum / np.maximum: a NaN operand gives NaN
Minimum(a, b) == IF IsNaN(a) \/ IsNaN(b) THEN NaN ELSE IF Lt(b, a) THEN b ELSE a

Maximum(a, b) == IF IsNaN(a) \/ IsNaN(b) THEN NaN ELSE IF Lt(a, b) THEN b ELSE a

\* Configurations of the schedule.
ScheduleConfigs ==
  [delta : {Frac(1, 10), Rat(1)}, delta_max : {Rat(1), Rat(100)},
   delta_inc : {Rat(2), Rat(10)},
   gamma : {Frac(1, 100), Rat(1)}, gamma_dec : {Frac(1, 2)},
   gamma_min : {Frac(1, 8), Frac(1, 1000)},
   omega : {Zero, Rat(1)}, omega_dec : {Frac(1, 2)}, omega_min : {Zero, Frac(3, 8)},
   max_gn_it : {MaxGnIt + 1}, TV : {0}, lambd : {Rat(2)}, SNR_est : {Rat(3)}]

\* execute calls made on one ModelReco
MaxExecutes == 2

\* Configurations of a ModelReco that execute is called on more than once;
\* TV is the argument of the first call.
ExecConfigs ==
  [delta : {Frac(1, 10)}, delta_max : {Rat(1)}, delta_inc : {Rat(2)},
   gamma : {Rat(1)}, gamma_dec : {Frac(1, 2)}, gamma_min : {Frac(1, 8)},
   omega : {Rat(1)}, omega_dec : {Frac(1, 2)}, omega_min : {Frac(3, 8)},
   max_gn_it : {MaxGnIt}, TV : {0, 1}, lambd : {Rat(2)},
   SNR_est : {Rat(3), Frac(1, 2)}]

\* Values of np.linalg.norm(result).
ResultNorms == {Zero, Rat(1000), Rat(3000)}

\* What the steps of the schedule leave alone.
regFrame == <<cfg, iters, result, modelVars, linVars, objVars, pdVars, file, tensorVars>>

\* The four entries _update_reg_par assigns, from the captured values.
UpdateRegParCompounding(par, sp, c, nrm, k) ==
  LET dmax == Mul(Div(par.delta_max, Rat(1000)), nrm)
  IN [delta_max |-> dmax,
      delta |-> Minimum(Mul(Mul(Div(par.delta, Rat(1000)), nrm), Pow(c.delta_inc, k)), dmax),
      gamma |-> Maximum(Mul(par.gamma, Pow(c.gamma_dec, k)), c.gamma_min),
      omega |-> Maximum(Mul(par.omega, Pow(c.omega_dec, k)), c.omega_min)]

UpdateRegPar(par, sp, c, nrm, k) ==
  LET dmax == Mul(Div(sp.delta_max, Rat(1000)), nrm)
  IN [delta_max |-> dmax,
      delta |-> Minimum(Mul(Mul(Div(sp.delta, Rat(1000)), nrm), Pow(c.delta_inc, k)), dmax),
      gamma |-> Maximum(Mul(sp.gamma, Pow(c.gamma_dec, k)), c.gamma_min),
      omega |-> Maximum(Mul(sp.omega, Pow(c.omega_dec, k)), c.omega_min)]

\* A ModelReco is constructed and execute is about to run.
RegStart ==
  /\ pc = "r_execute"
  /\ mdl = "DiffdirLL"
  /\ raw = <<Zero, Zero>>
  /\ filt = <<Zero, Zero>>
  /\ ign = 0
  /\ iters = 1
  /\ result = Guess
  /\ uk_scale = [u \in Uk |-> One]
  /\ constraints = <<[min |-> Rat(0), max |-> Rat(10), real |-> FALSE],
                     [min |-> Rat(-10), max |-> Rat(10), real |-> TRUE]>>
  /\ grad_x = ZeroColumns
  /\ grad_buf = ZeroColumns
  /\ step_val = [s \in Scans |-> Zero]
  /\ fval = Zero
  /\ fval_old = Zero
  /\ fval_init = Zero
  /\ gn_res = <<>>
  /\ x = ZeroMaps
  /\ x_new = ZeroMaps
  /\ xk = ZeroMaps
  /\ i = 0
  /\ min_const = [u \in Uk |-> Zero]
  /\ max_const = [u \in Uk |-> Zero]
  /\ real_const = [u \in Uk |-> 0]
  /\ file = [ds |-> <<>>, attrs |-> <<>>]
  /\ dphys = ZeroColumns
  /\ fphys = [s \in Scans |-> Zero]
  /\ uploads = 0
  /\ gpoint = <<>>
  /\ fpoint = <<>>
  /\ self = WithRatios(SetupRegTmpArrays(0), InitRatio)
  /\ SolverIdle
  /\ TensorIdle
  /\ irgn_par = [delta |-> cfg.delta, delta_max |-> cfg.delta_max,
                 gamma |-> cfg.gamma, omega |-> cfg.omega, lambd |-> cfg.lambd]
  /\ selfpar = <<>>
  /\ xnorm = Zero
  /\ execs = 0

InitReg ==
  /\ cfg \in ScheduleConfigs
  /\ RegStart

\* execute with the multiplication of lambd done before reco_2D is looked at
ExecuteLambdFirst(par, snr, reco_2D) == [par EXCEPT !.lambd = Mul(@, snr)]

\* execute: irgn_par after "if reco_2D: raise NotImplementedError / else:
\* self.irgn_par["lambd"] *= self.par["SNR_est"]"
ExecuteLambd(par, snr, reco_2D) ==
  IF reco_2D THEN par ELSE [par EXCEPT !.lambd = Mul(@, snr)]

\* execute taking the configured values as the base of the schedule.
CapturedConfigured(par) ==
  [delta |-> cfg.delta, delta_max |-> cfg.delta_max,
   gamma |-> cfg.gamma, omega |-> cfg.omega]

\* The four entries execute copies to the object.
Captured(par) ==
  [delta |-> par.delta, delta_max |-> par.delta_max,
   gamma |-> par.gamma, omega |-> par.omega]

\* execute(TV, imagespace, reco_2D) up to the first pass of the GN loop:
\* with reco_2D it raises; otherwise lambd is multiplied, self.delta and the
\* three others are copied, and _execute_3D sets up its arrays and operators.
RegExecute ==
  /\ pc = "r_execute"
  /\ \E reco_2D \in BOOLEAN :
       /\ irgn_par' = ExecuteLambd(irgn_par, cfg.SNR_est, reco_2D)
       /\ IF reco_2D
          THEN /\ pc' = "r_raised"
               /\ UNCHANGED <<selfpar, ign, self>>
          ELSE /\ selfpar' = Captured(irgn_par)
               /\ ign' = 0
               /\ self' = WithRatios(SetupRegTmpArrays(cfg.TV), InitRatio)
               /\ pc' = "r_update"
  /\ UNCHANGED <<regFrame, filterVars, arg, loc, bind, mem, queue, tests, out, calls,
                 xnorm, execs>>

\* self._update_reg_par(result, ign)
RegUpdate ==
  /\ pc = "r_update"
  /\ \E nrm \in ResultNorms :
       /\ xnorm' = nrm
       /\ irgn_par' = UpdateRegPar(irgn_par, selfpar, cfg, nrm, ign) @@ irgn_par
  /\ pc' = "r_updated"
  /\ UNCHANGED <<regFrame, ign, filterVars, solveVars, selfpar, execs>>

\* The end of the GN step: self.savetofile(ign, self.model.rescale(result), TV)
RegPersist ==
  /\ pc = "r_updated"
  /\ LET sv == SaveToFile(file, ign, Rescale(result, uk_scale), cfg.TV, fval)
     IN  /\ file' = [ds |-> sv.ds, attrs |-> sv.attrs]
         /\ pc' = IF sv.ok THEN "r_saved" ELSE "r_failed"
  /\ UNCHANGED <<cfg, iters, result, modelVars, linVars, objVars, pdVars, tensorVars,
                 ign, filterVars, solveVars, regVars>>

\* The next pass of "for ign in range(self.irgn_par["max_gn_it"])"
RegNextStep ==
  /\ pc = "r_saved"
  /\ ign + 1 < cfg.max_gn_it
  /\ ign' = ign + 1
  /\ pc' = "r_update"
  /\ UNCHANGED <<regFrame, filterVars, solveVars, regVars>>

\* The loop is left, by its break or after its last pass, and execute returns.
RegReturn ==
  /\ pc = "r_saved"
  /\ execs' = execs + 1
  /\ pc' = "r_returned"
  /\ UNCHANGED <<regFrame, ign, filterVars, solveVars, irgn_par, selfpar, xnorm>>

NextReg ==
  \/ RegExecute
  \/ RegUpdate
  \/ RegPersist
  \/ RegNextStep
  \/ RegReturn

SpecReg == InitReg /\ [][NextReg]_vars

(***************************************************************************)
(* execute called again on the same ModelReco.                             *)
(***************************************************************************)
InitExec ==
  /\ cfg \in ExecConfigs
  /\ RegStart

\* The caller calls execute again, with a TV argument of its choice.
RegCallAgain ==
  /\ pc = "r_returned"
  /\ execs < MaxExecutes
  /\ \E tv \in {0, 1} : cfg' = [cfg EXCEPT !.TV = tv]
  /\ pc' = "r_execute"
  /\ UNCHANGED <<iters, result, modelVars, linVars, objVars, pdVars, file, tensorVars,
                 ign, filterVars, solveVars, regVars>>

NextExec ==
  \/ RegExecute
  \/ RegUpdate
  \/ RegPersist
  \/ RegNextStep
  \/ RegReturn
  \/ RegCallAgain

SpecExec == InitExec /\ [][NextExec]_vars

(***************************************************************************)
(* The diffusion tensor models at one voxel and one scan                   *)
(* (pyqmri/models/DiffdirLL.py, mbpq/_models/Diffdir.py).                  *)
(*                                                                         *)
(* The unknowns are real.  exp is not computed: a signal value             *)
(* c * exp(e) is carried as the pair of its coefficient c and its          *)
(* exponent e.                                                             *)
(***************************************************************************)
TensorModels == {"DiffdirLL", "Diffdir"}

\* unknowns_TGV = 7: M0 and six tensor unknowns
TensorUk == 0 .. 6

\* Values of x[0] and of x[1..6] at the voxel.
M0Values == {Zero, Rat(3)}

UnknownValues == {Rat(-1), Zero, Rat(2)}

\* self.uk_scale: all ones as constructed, or as left by a rebalancing.
ScaleValues == {[u \in TensorUk |-> One], [u \in TensorUk |-> Frac(u + 1, 2)]}

\* self.dir of the scan
Directions == {<<One, Zero, Zero>>, <<Rat(1), Rat(2), Rat(-1)>>}

\* self.b of the scan
BValues == {Rat(2)}

\* self.phase at the voxel
Phases == {One, Neg(One)}

Square(a) == Mul(a, a)

RECURSIVE Product(_)
Product(fs) == IF fs = <<>> THEN One ELSE Mul(Head(fs), Product(Tail(fs)))

RECURSIVE Summation(_)
Summation(ts) == IF ts = <<>> THEN Zero ELSE Add(Head(ts), Summation(Tail(ts)))

\* c * exp(e) with its non-finite values zeroed
ExpTerm(c, e) == [c |-> ZeroNonFinite(c), e |-> e]

\* DiffdirLL.rescale with the true cross term of ADC_yz replaced by
\* x[2]*x[4] + x[6]*x[5]
RescaleTensorMixed(xx, sc) ==
  [u \in TensorUk |->
     CASE u = 0 -> Mul(xx[0], sc[0])
       [] u = 1 -> Mul(Square(xx[1]), Square(sc[1]))
       [] u = 2 -> Product(<<xx[2], sc[2], xx[1], sc[1]>>)
       [] u = 3 -> Add(Mul(Square(xx[2]), Square(sc[2])),
                       Mul(Square(xx[3]), Square(sc[3])))
       [] u = 4 -> Product(<<xx[4], sc[4], xx[1], sc[1]>>)
       [] u = 5 -> Summation(<<Mul(Square(xx[4]), Square(sc[4])),
                               Mul(Square(xx[5]), Square(sc[5])),
                               Mul(Square(xx[6]), Square(sc[6]))>>)
       [] u = 6 -> Add(Product(<<xx[2], sc[2], xx[4], sc[4]>>),
                       Product(<<xx[6], sc[6], xx[5], sc[5]>>))]

\* DiffdirLL.rescale: (M0, ADC_x, ADC_xy, ADC_y, ADC_xz, ADC_z, ADC_yz)
RescaleTensor(xx, sc) ==
  [u \in TensorUk |->
     CASE u = 0 -> Mul(xx[0], sc[0])
       [] u = 1 -> Mul(Square(xx[1]), Square(sc[1]))
       [] u = 2 -> Product(<<xx[2], sc[2], xx[1], sc[1]>>)
       [] u = 3 -> Add(Mul(Square(xx[2]), Square(sc[2])),
                       Mul(Square(xx[3]), Square(sc[3])))
       [] u = 4 -> Product(<<xx[4], sc[4], xx[1], sc[1]>>)
       [] u = 5 -> Summation(<<Mul(Square(xx[4]), Square(sc[4])),
                               Mul(Square(xx[5]), Square(sc[5])),
                               Mul(Square(xx[6]), Square(sc[6]))>>)
       [] u = 6 -> Add(Product(<<xx[2], sc[2], xx[4], sc[4]>>),
                       Product(<<xx[6], sc[6], xx[3], sc[3]>>))]

\* ADC of DiffdirLL._execute_forward_3D and _execute_gradient_3D;
\* d[1], d[2], d[3] are self.dir[..., 0], [..., 1], [..., 2]
AdcLL(xx, sc, d) ==
  Summation(<<
    Product(<<Square(xx[1]), Square(sc[1]), Square(d[1])>>),
    Mul(Add(Mul(Square(xx[2]), Square(sc[2])), Mul(Square(xx[3]), Square(sc[3]))),
        Square(d[2])),
    Mul(Summation(<<Mul(Square(xx[4]), Square(sc[4])),
                    Mul(Square(xx[5]), Square(sc[5])),
                    Mul(Square(xx[6]), Square(sc[6]))>>),
        Square(d[3])),
    Product(<<Rat(2), Product(<<xx[2], sc[2], xx[1], sc[1]>>), d[1], d[2]>>),
    Product(<<Rat(2), Product(<<xx[4], sc[4], xx[1], sc[1]>>), d[1], d[3]>>),
    Product(<<Rat(2), Add(Product(<<xx[2], sc[2], xx[4], sc[4]>>),
                          Product(<<xx[6], sc[6], xx[3], sc[3]>>)), d[2], d[3]>>)>>)

\* ADC of Diffdir._execute_forward_3D and _execute_gradient_3D
AdcDiffdir(xx, sc, d) ==
  Summation(<<
    Product(<<xx[1], sc[1], Square(d[1])>>),
    Product(<<xx[3], sc[3], Square(d[2])>>),
    Product(<<xx[5], sc[5], Square(d[3])>>),
    Product(<<Rat(2), xx[2], sc[2], d[1], d[2]>>),
    Product(<<Rat(2), xx[4], sc[4], d[1], d[3]>>),
    Product(<<Rat(2), xx[6], sc[6], d[2], d[3]>>)>>)

Adc(m, xx, sc, d) == IF m = "DiffdirLL" THEN AdcLL(xx, sc, d) ELSE AdcDiffdir(xx, sc, d)

\* _execute_forward_3D of both models:
\* S = x[0] * uk_scale[0] * exp(-ADC * b); S *= phase; S[~isfinite(S)] = 0
ForwardTensor(m, xx, sc, d, b, ph) ==
  ExpTerm(Product(<<xx[0], sc[0], ph>>), Neg(Mul(Adc(m, xx, sc, d), b)))

\* grad_M0 = uk_scale[0] * exp(-ADC * b); grad_M0 *= phase
GradM0(m, xx, sc, d, b, ph) == [c |-> Mul(sc[0], ph), e |-> Neg(Mul(Adc(m, xx, sc, d), b))]

\* The factors in brackets of grad_ADC_* of DiffdirLL, in the order of the
\* returned array
BracketsLL(xx, sc, d) ==
  [u \in 1 .. 6 |->
     CASE u = 1 -> Summation(<<
                     Product(<<Rat(2), xx[1], Square(sc[1]), Square(d[1])>>),
                     Product(<<Rat(2), sc[1], xx[2], sc[2], d[1], d[2]>>),
                     Product(<<Rat(2), sc[1], xx[4], sc[4], d[1], d[3]>>)>>)
       [] u = 2 -> Summation(<<
                     Product(<<Rat(2), xx[1], sc[1], sc[2], d[1], d[2]>>),
                     Product(<<Rat(2), xx[2], Square(sc[2]), Square(d[2])>>),
                     Product(<<Rat(2), sc[2], xx[4], sc[4], d[2], d[3]>>)>>)
       [] u = 3 -> Summation(<<
                     Product(<<Rat(2), xx[3], Square(sc[3]), Square(d[2])>>),
                     Product(<<Rat(2), sc[3], xx[6], sc[6], d[2], d[3]>>)>>)
       [] u = 4 -> Summation(<<
                     Product(<<Rat(2), xx[1], sc[1], sc[4], d[1], d[3]>>),
                     Product(<<Rat(2), xx[2], sc[2], sc[4], d[2], d[3]>>),
                     Product(<<Rat(2), xx[4], Square(sc[4]), Square(d[3])>>)>>)
       [] u = 5 -> Product(<<Rat(2), xx[5], Square(sc[5]), Square(d[3])>>)
       [] u = 6 -> Summation(<<
                     Product(<<Rat(2), xx[3], sc[3], sc[6], d[2], d[3]>>),
                     Product(<<Rat(2), xx[6], Square(sc[6]), Square(d[3])>>)>>)]

\* DiffdirLL._execute_gradient_3D with grad_ADC_yz written without its
\* x[3] term
GradientLLShort(xx, sc, d, b, ph) ==
  LET g0 == GradM0("DiffdirLL", xx, sc, d, b, ph)
      br == [BracketsLL(xx, sc, d) EXCEPT
               ![6] = Product(<<Rat(2), xx[6], Square(sc[6]), Square(d[3])>>)]
  IN  [u \in TensorUk |->
         IF u = 0 THEN ExpTerm(g0.c, g0.e)
         ELSE ExpTerm(Product(<<Neg(xx[0]), b, g0.c, br[u]>>), g0.e)]

\* DiffdirLL._execute_gradient_3D: grad_ADC_* = -x[0] * b * grad_M0 * (...);
\* grad[~isfinite(grad)] = 0
GradientLL(xx, sc, d, b, ph) ==
  LET g0 == GradM0("DiffdirLL", xx, sc, d, b, ph)
      br == BracketsLL(xx, sc, d)
  IN  [u \in TensorUk |->
         IF u = 0 THEN ExpTerm(g0.c, g0.e)
         ELSE ExpTerm(Product(<<Neg(xx[0]), b, g0.c, br[u]>>), g0.e)]

\* The factors in brackets of grad_ADC_* of Diffdir
BracketsDiffdir(sc, d, b) ==
  [u \in 1 .. 6 |->
     CASE u = 1 -> Product(<<Neg(sc[1]), Square(d[1]), b>>)
       [] u = 2 -> Product(<<Rat(-2), sc[2], d[1], d[2], b>>)
       [] u = 3 -> Product(<<Neg(sc[3]), Square(d[2]), b>>)
       [] u = 4 -> Product(<<Rat(-2), sc[4], d[1], d[3], b>>)
       [] u = 5 -> Product(<<Neg(sc[5]), Square(d[3]), b>>)
       [] u = 6 -> Product(<<Rat(-2), sc[6], d[2], d[3], b>>)]

\* Diffdir._execute_gradient_3D: grad_ADC_* = x[0] * grad_M0 * (...)
GradientDiffdir(xx, sc, d, b, ph) ==
  LET g0 == GradM0("Diffdir", xx, sc, d, b, ph)
      br == BracketsDiffdir(sc, d, b)
  IN  [u \in TensorUk |->
         IF u = 0 THEN ExpTerm(g0.c, g0.e)
         ELSE ExpTerm(Product(<<xx[0], g0.c, br[u]>>), g0.e)]

GradientTensor(m, xx, sc, d, b, ph) ==
  IF m = "DiffdirLL" THEN GradientLL(xx, sc, d, b, ph)
  ELSE GradientDiffdir(xx, sc, d, b, ph)

\* The voxels the functions are applied to.
Voxels ==
  [model : TensorModels,
   x : {xx \in [TensorUk -> UnknownValues \cup M0Values] :
          /\ xx[0] \in M0Values
          /\ \A u \in 1 .. 6 : xx[u] \in UnknownValues},
   uk_scale : ScaleValues, dir : Directions, b : BValues, phase : Phases,
   S : {<<>>}, grad : {<<>>}, rescaled : {<<>>}]

InitTensor ==
  /\ cfg = [TV |-> 0, start_iters |-> 1, max_iters |-> 1, max_gn_it |-> 1,
            tol |-> Frac(1, 2), lambd |-> Rat(2)]
  /\ mdl = "DiffdirLL"
  /\ raw = <<Zero, Zero>>
  /\ filt = <<Zero, Zero>>
  /\ Constructed
  /\ self = WithRatios(SetupRegTmpArrays(0), InitRatio)
  /\ SolverIdle
  /\ ScheduleIdle
  /\ pc = "t_gradient"
  /\ voxel \in Voxels

tensorFrame == <<mainVars, filterVars, solveVars, regVars>>

\* model.execute_gradient at the voxel
TensorGradient ==
  /\ pc = "t_gradient"
  /\ voxel' = [voxel EXCEPT !.grad = GradientTensor(voxel.model, voxel.x, voxel.uk_scale,
                                                    voxel.dir, voxel.b, voxel.phase)]
  /\ pc' = "t_forward"
  /\ UNCHANGED tensorFrame

\* model.execute_forward at the voxel
TensorForward ==
  /\ pc = "t_forward"
  /\ voxel' = [voxel EXCEPT !.S = ForwardTensor(voxel.model, voxel.x, voxel.uk_scale,
                                                voxel.dir, voxel.b, voxel.phase)]
  /\ pc' = IF voxel.model = "DiffdirLL" THEN "t_rescale" ELSE "t_done"
  /\ UNCHANGED tensorFrame

\* model.rescale at the voxel (DiffdirLL)
TensorRescale ==
  /\ pc = "t_rescale"
  /\ voxel' = [voxel EXCEPT !.rescaled = RescaleTensor(voxel.x, voxel.uk_scale)]
  /\ pc' = "t_done"
  /\ UNCHANGED tensorFrame

NextTensor ==
  \/ TensorGradient
  \/ TensorForward
  \/ TensorRescale

SpecTensor == InitTensor /\ [][NextTensor]_vars

(***************************************************************************)
(* The initial guess of the diffusion models at one voxel                  *)
(* (DiffdirLL.computeInitialGuess, Diffdir.__init__ and _set_init_scales). *)
(***************************************************************************)
\* self.b0 of DiffdirLL when the data file holds no b0 image
None == <<"None">>

\* par["file"]["b0"] at the voxel, when present
B0Values == {Rat(5), Rat(7), Rat(9)}

\* images[0] (args[0][0]) at the voxel
FirstScanValues == {Rat(3), Rat(4), Rat(6)}

\* par["dscale"]
DscaleValues == {Rat(1), Rat(2)}

\* uk_scale[0] when the guess is computed: 1 as constructed, or rebalanced
GuessScales == {One, Rat(2)}

\* Model.__init__: self.b0 is the b0 image of the file; on KeyError it is
\* None in DiffdirLL and images[0] * par["dscale"] in Diffdir.
ModelB0(m, fileb0, scan0, dscale) ==
  IF fileb0 # None THEN fileb0
  ELSE IF m = "DiffdirLL" THEN None
  ELSE Mul(scan0, dscale)

\* The guess with x[0] always taken from the first scan.
GuessFromFirstScan(b0, scan0, sc0) ==
  [u \in TensorUk |->
     IF u = 0 THEN Div(scan0, sc0)
     ELSE IF u \in {1, 3, 5} THEN One ELSE Mul(Zero, One)]

\* DiffdirLL.computeInitialGuess:
\* x = [test_M0 / uk_scale[0], ADC, 0 * ADC, ADC, 0 * ADC, ADC, 0 * ADC], ADC = 1
ComputeInitialGuess(b0, scan0, sc0) ==
  LET test_M0 == IF b0 # None THEN b0 ELSE scan0
  IN  [u \in TensorUk |->
         IF u = 0 THEN Div(test_M0, sc0)
         ELSE IF u \in {1, 3, 5} THEN One ELSE Mul(Zero, One)]

\* Diffdir._set_init_scales: test_M0 = self.b0, the same array otherwise
SetInitScales(b0, sc0) ==
  [u \in TensorUk |->
     IF u = 0 THEN Div(b0, sc0)
     ELSE IF u \in {1, 3, 5} THEN One ELSE Mul(Zero, One)]

\* The voxels a guess is computed for; Diffdir computes it in its
\* constructor, where uk_scale is 1.
GuessInputs ==
  {g \in [model : TensorModels, fileb0 : B0Values \cup {None},
          scan0 : FirstScanValues, dscale : DscaleValues, uk_scale0 : GuessScales,
          b0 : {<<>>}, guess : {<<>>}] :
     g.model = "Diffdir" => g.uk_scale0 = One}

InitGuess ==
  /\ cfg = [TV |-> 0, start_iters |-> 1, max_iters |-> 1, max_gn_it |-> 1,
            tol |-> Frac(1, 2), lambd |-> Rat(2)]
  /\ mdl = "DiffdirLL"
  /\ raw = <<Zero, Zero>>
  /\ filt = <<Zero, Zero>>
  /\ Constructed
  /\ self = WithRatios(SetupRegTmpArrays(0), InitRatio)
  /\ SolverIdle
  /\ ScheduleIdle
  /\ pc = "g_init"
  /\ voxel \in GuessInputs

\* Model.__init__ of either model: self.b0
GuessConstruct ==
  /\ pc = "g_init"
  /\ voxel' = [voxel EXCEPT !.b0 = ModelB0(voxel.model, voxel.fileb0, voxel.scan0,
                                          voxel.dscale)]
  /\ pc' = "g_guess"
  /\ UNCHANGED tensorFrame

\* DiffdirLL: model.computeInitialGuess(images)
GuessDiffdirLL ==
  /\ pc = "g_guess"
  /\ voxel.model = "DiffdirLL"
  /\ voxel' = [voxel EXCEPT !.guess = ComputeInitialGuess(voxel.b0, voxel.scan0,
                                                         voxel.uk_scale0)]
  /\ pc' = "g_done"
  /\ UNCHANGED tensorFrame

\* Diffdir: self.guess = self._set_init_scales(images)
GuessDiffdir ==
  /\ pc = "g_guess"
  /\ voxel.model = "Diffdir"
  /\ voxel' = [voxel EXCEPT !.guess = SetInitScales(voxel.b0, voxel.uk_scale0)]
  /\ pc' = "g_done"
  /\ UNCHANGED tensorFrame

NextGuess ==
  \/ GuessConstruct
  \/ GuessDiffdirLL
  \/ GuessDiffdir

SpecGuess == InitGuess /\ [][NextGuess]_vars

(***************************************************************************)
(* The call of the inner solver from a GN step, in both data modes, and    *)
(* tgv_solve_3D_explicit statement by statement.                           *)
(***************************************************************************)
\* Values of the TV flag: 1, 0, and one that is neither.
TVFlags == {0, 1, 2}

\* irgn_solve_3D(result, iters, self.data, ign, TV) of the first GN step
DispatchCalls ==
  [imagespace : BOOLEAN, TV : TVFlags, x : {<<"guess">>}, iters : {1, 2}]

\* tgv_solve_3D_explicit(x, res, iters) called on the object, with the
\* parameters its rules read.
ExplicitCalls ==
  [TV : {2}, x : {<<"guess">>}, iters : SolveIters, finite : {TRUE},
   tol : {Frac(1, 2), Frac(3, 2)}, stag : {Rat(2)}, lambd : {Rat(2)},
   NSlice : {Rat(1)}]

\* What tv_solve_3D or tgv_solve_3D returns for a linearization point.
Returned(solver, xc, n) == <<solver, xc, n>>

\* self._set_scale(x): reco.py defines no such method, so on an object of
\* this class the attribute lookup raises AttributeError; the call returns
\* only on an object that was given the attribute.
SetScaleOutcomes == {"AttributeError", "returns"}

\* The Python names of the device arrays of tgv_solve_3D_explicit.
ExplicitArrays ==
  {"x", "xk", "x_new", "ATd", "z1", "z1_new", "z2", "z2_new", "v", "v_new",
   "Kyk1", "Kyk1_new", "Kyk2", "Kyk2_new", "gradx", "gradx_xold", "symgrad_v",
   "symgrad_v_vold", "AT"}

OpAdj(c) == <<"op.adj", c>>

GradAdj(c) == <<"grad_op.adj", c>>

\* The contents after the statements before the loop: the duals and v are
\* those stored on the object.
ExplicitEntryMemory(xc, slf) ==
  [a \in ExplicitArrays |->
     CASE a = "x" -> xc
       [] a = "xk" -> xc
       [] a = "z1" -> slf.z1
       [] a = "z2" -> slf.z2
       [] a = "v" -> slf.v
       [] a = "AT" -> OpFwd(xc)
       [] a = "ATd" -> OpAdj(xc)
       [] a = "Kyk1" -> GradAdj(slf.z1)
       [] a = "Kyk2" -> UpdateKyk2(slf.z2, slf.z1)
       [] OTHER -> Empty]

\* The tuple assignment after the line search of tgv_solve_3D_explicit.
ExplicitDualSwap ==
  [n \in {"Kyk1", "Kyk1_new", "Kyk2", "Kyk2_new", "z1", "z1_new", "z2", "z2_new"} |->
     CASE n = "Kyk1" -> "Kyk1_new" [] n = "Kyk1_new" -> "Kyk1"
       [] n = "Kyk2" -> "Kyk2_new" [] n = "Kyk2_new" -> "Kyk2"
       [] n = "z1" -> "z1_new" [] n = "z1_new" -> "z1"
       [] n = "z2" -> "z2_new" [] n = "z2_new" -> "z2"]

\* The three rules of tgv_solve_3D_explicit at an objective check, in
\* program order; "none" if the loop goes on.
ExplicitExit(l, a) ==
  LET bound == Mul(Mul(a.lambd, a.NSlice), a.tol)
  IN IF Lt(Abs(Sub(l.primal, l.primal_new)), bound) THEN "primal"
     ELSE IF Lt(Mul(l.gap_min, a.stag), l.gap) /\ l.i > 1 THEN "stagnation"
     ELSE IF Lt(Abs(Sub(l.gap, l.gap_min)), bound) /\ l.i > 1 THEN "gap"
     ELSE "none"

\* The array whose content each return statement of the rules hands back.
ExplicitReturned(why) == IF why = "stagnation" THEN "x" ELSE "x_new"

\* self.v = ..., self.z1 = z1.get(), self.z2 = z2.get() before a return
ExplicitStoreDuals(vname) ==
  [self EXCEPT !.v = Val(vname), !.z1 = Val("z1"), !.z2 = Val("z2")]

\* A GN step is about to call self.irgn_solve_3D, or tgv_solve_3D_explicit
\* is called on an object set up for a flag that is neither 0 nor 1.
InitDispatch ==
  /\ cfg = [TV |-> 0, start_iters |-> 1, max_iters |-> 1, max_gn_it |-> 1,
            tol |-> Frac(1, 2), lambd |-> Rat(2)]
  /\ mdl = "DiffdirLL"
  /\ raw = <<Zero, Zero>>
  /\ filt = <<Zero, Zero>>
  /\ Constructed
  /\ \/ pc = "d_call" /\ arg \in DispatchCalls
     \/ pc = "e_call" /\ arg \in ExplicitCalls
  /\ self = WithRatios(SetupRegTmpArrays(arg.TV), InitRatio)
  /\ loc = <<>>
  /\ bind = <<>>
  /\ mem = <<>>
  /\ queue = <<>>
  /\ tests = {}
  /\ out = <<>>
  /\ calls = 1
  /\ ScheduleIdle
  /\ TensorIdle

\* _irgn_solve_3D_kspace from "if TV == 1" on: x is the host array that
\* x = x.get() left, so the x.get() of the else branch raises AttributeError
\* before tgv_solve_3D_explicit is entered.
IrgnSolve3DKspace ==
  /\ pc = "d_call"
  /\ ~arg.imagespace
  /\ IF arg.TV = 1
     THEN /\ out' = [solver |-> "tv_solve_3D", x |-> Returned("tv_solve_3D", arg.x, arg.iters)]
          /\ pc' = "d_returned"
     ELSE IF arg.TV = 0
     THEN /\ out' = [solver |-> "tgv_solve_3D", x |-> Returned("tgv_solve_3D", arg.x, arg.iters)]
          /\ pc' = "d_returned"
     ELSE /\ out' = out
          /\ pc' = "d_raised"
  /\ UNCHANGED <<mainVars, tensorVars, filterVars, regVars, self, arg, loc, bind, mem, queue, tests, calls>>

\* _irgn_solve_3D_imagespace from "if TV == 1" on: there is no else branch,
\* and "return x" hands back the linearization point.
IrgnSolve3DImagespace ==
  /\ pc = "d_call"
  /\ arg.imagespace
  /\ out' = IF arg.TV = 1
            THEN [solver |-> "tv_solve_3D", x |-> Returned("tv_solve_3D", arg.x, arg.iters)]
            ELSE IF arg.TV = 0
            THEN [solver |-> "tgv_solve_3D", x |-> Returned("tgv_solve_3D", arg.x, arg.iters)]
            ELSE [solver |-> "none", x |-> arg.x]
  /\ pc' = "d_returned"
  /\ UNCHANGED <<mainVars, tensorVars, filterVars, regVars, self, arg, loc, bind, mem, queue, tests, calls>>

\* result = self.irgn_solve_3D(result, iters, ...) and the call of the next
\* GN step with that result
GnStepAgain ==
  /\ pc = "d_returned"
  /\ calls < MaxGnIt
  /\ \E n \in {1, 2} : arg' = [arg EXCEPT !.x = out.x, !.iters = n]
  /\ calls' = calls + 1
  /\ pc' = "d_call"
  /\ UNCHANGED <<mainVars, tensorVars, filterVars, regVars, self, loc, bind, mem, queue, tests, out>>

\* tgv_solve_3D_explicit up to the loop
ExplicitEntry ==
  /\ pc = "e_call"
  /\ \E scale \in SetScaleOutcomes :
       IF scale = "AttributeError"
       THEN /\ pc' = "e_raised"
            /\ UNCHANGED <<loc, bind, mem>>
       ELSE /\ loc' = [i |-> 0, tau |-> self.tau, tau_new |-> Known("const", 0, 1),
                       beta_line |-> self.beta_line, beta_new |-> Known("const", 0, 1),
                       theta_line |-> self.theta_line, primal |-> Zero,
                       primal_new |-> Zero, dual |-> Zero, gap_min |-> Zero,
                       gap |-> Zero]
            /\ bind' = [n \in ExplicitArrays |-> n]
            /\ mem' = ExplicitEntryMemory(arg.x, self)
            /\ pc' = IF arg.iters > 0 THEN "e_primal" ELSE "e_exhaust"
  /\ UNCHANGED <<mainVars, tensorVars, filterVars, regVars, self, arg, queue, tests, out, calls>>

\* op.adj(AT, [x_new, ...]); update_primal_explicit(x_new, x, Kyk1, xk, ATd, ...);
\* update_v(v_new, v, Kyk2, tau)
ExplicitUpdatePrimal ==
  /\ pc = "e_primal"
  /\ mem' = Written([n \in {"AT", "x_new", "v_new"} |->
                       CASE n = "AT" -> OpAdj(Val("x_new"))
                         [] n = "x_new" -> KPrimal(calls, loc.i)
                         [] n = "v_new" -> KV(calls, loc.i)])
  /\ pc' = "e_step"
  /\ UNCHANGED <<mainVars, tensorVars, filterVars, regVars, self, arg, loc, bind, queue, tests, out, calls>>

\* beta_new = ...; tau_new = ...; beta_line = beta_new
ExplicitStepSizes ==
  /\ pc = "e_step"
  /\ LET bn == BetaNew(loc.beta_line, loc.tau, loc.i)
     IN loc' = [loc EXCEPT !.beta_new = bn,
                           !.tau_new = TauNew(loc.tau, loc.beta_line, bn,
                                              loc.theta_line, loc.i),
                           !.beta_line = bn]
  /\ pc' = "e_fwd"
  /\ UNCHANGED <<mainVars, tensorVars, filterVars, regVars, self, arg, bind, mem, queue, tests, out, calls>>

\* gradx = G x_new, gradx_xold = G x, symgrad_v = E v_new,
\* symgrad_v_vold = E v, AT = A x_new
ExplicitForward ==
  /\ pc = "e_fwd"
  /\ mem' = Written(
       [n \in {"gradx", "gradx_xold", "symgrad_v", "symgrad_v_vold", "AT"} |->
          CASE n = "gradx" -> GradFwd(Val("x_new"), self.grad_ratio)
            [] n = "gradx_xold" -> GradFwd(Val("x"), self.grad_ratio)
            [] n = "symgrad_v" -> SymgradFwd(Val("v_new"))
            [] n = "symgrad_v_vold" -> SymgradFwd(Val("v"))
            [] n = "AT" -> OpFwd(Val("x_new"))])
  /\ pc' = "e_dual"
  /\ UNCHANGED <<mainVars, tensorVars, filterVars, regVars, self, arg, loc, bind, queue, tests, out, calls>>

\* One pass of the body of "while True" up to the norms
ExplicitDualAttempt ==
  /\ pc = "e_dual"
  /\ LET th == ThetaLine(loc.tau_new, loc.tau)
         d(kernel) == KDual(kernel, calls, loc.beta_line, loc.tau_new, th)
     IN /\ loc' = [loc EXCEPT !.theta_line = th]
        /\ mem' = Written(
             [n \in {"z1_new", "z2_new", "Kyk1_new", "Kyk2_new"} |->
                CASE n = "z1_new" -> d("update_z1")
                  [] n = "z2_new" -> d("update_z2")
                  [] n = "Kyk1_new" -> GradAdj(d("update_z1"))
                  [] n = "Kyk2_new" -> UpdateKyk2(d("update_z2"), d("update_z1"))])
  /\ pc' = "e_test"
  /\ UNCHANGED <<mainVars, tensorVars, filterVars, regVars, self, arg, bind, queue, tests, out, calls>>

\* if lhs <= ynorm * delta_line: break / else: tau_new = tau_new * mu_line
ExplicitLineSearchTest ==
  /\ pc = "e_test"
  /\ \E ok \in TestOutcomes(arg.finite, loc.tau_new) :
       /\ loc' = IF ok THEN loc ELSE [loc EXCEPT !.tau_new = Halve(loc.tau_new)]
       /\ pc' = IF ok THEN "e_swap" ELSE "e_dual"
  /\ UNCHANGED <<mainVars, tensorVars, filterVars, regVars, self, arg, bind, mem, queue, tests, out, calls>>

\* The tuple assignment that rolls the duals, their images and tau.
ExplicitSwapDuals ==
  /\ pc = "e_swap"
  /\ bind' = Rebound(ExplicitDualSwap)
  /\ loc' = [loc EXCEPT !.tau = loc.tau_new]
  /\ pc' = IF loc.i % CheckEvery = 0 THEN "e_check" ELSE "e_swapx"
  /\ UNCHANGED <<mainVars, tensorVars, filterVars, regVars, self, arg, mem, queue, tests, out, calls>>

\* primal_new, dual and gap of an objective check; gap_min = gap at i = 0
ExplicitObjective ==
  /\ pc = "e_check"
  /\ \E P \in PrimalObjectives, D \in DualObjectives :
       loc' = [loc EXCEPT !.primal_new = P, !.dual = D,
                          !.gap = Abs(Sub(P, D)),
                          !.gap_min = IF loc.i = 0 THEN Abs(Sub(P, D)) ELSE @]
  /\ pc' = "e_rules"
  /\ UNCHANGED <<mainVars, tensorVars, filterVars, regVars, self, arg, bind, mem, queue, tests, out, calls>>

\* One of the three rules holds: store v_new and the duals, return
\* x_new.get(), or x.get() under the stagnation rule
ExplicitReturnEarly ==
  /\ pc = "e_rules"
  /\ ExplicitExit(loc, arg) # "none"
  /\ self' = ExplicitStoreDuals("v_new")
  /\ out' = [x |-> Val(ExplicitReturned(ExplicitExit(loc, arg))),
             why |-> ExplicitExit(loc, arg)]
  /\ pc' = "e_done"
  /\ UNCHANGED <<mainVars, tensorVars, filterVars, regVars, arg, loc, bind, mem, queue, tests, calls>>

\* None holds: primal = primal_new; gap_min = np.minimum(gap, gap_min)
ExplicitContinue ==
  /\ pc = "e_rules"
  /\ ExplicitExit(loc, arg) = "none"
  /\ loc' = [loc EXCEPT !.primal = loc.primal_new,
                        !.gap_min = Minimum(loc.gap, loc.gap_min)]
  /\ pc' = "e_swapx"
  /\ UNCHANGED <<mainVars, tensorVars, filterVars, regVars, self, arg, bind, mem, queue, tests, out, calls>>

\* (x, x_new) = (x_new, x); (v, v_new) = (v_new, v); the next i of range(iters)
ExplicitSwapPrimal ==
  /\ pc = "e_swapx"
  /\ bind' = Rebound(PrimalSwap(arg.TV))
  /\ loc' = [loc EXCEPT !.i = loc.i + 1]
  /\ pc' = IF loc.i + 1 < arg.iters THEN "e_primal" ELSE "e_exhaust"
  /\ UNCHANGED <<mainVars, tensorVars, filterVars, regVars, self, arg, mem, queue, tests, out, calls>>

\* The loop ran out: store v and the duals, return x.get()
ExplicitReturn ==
  /\ pc = "e_exhaust"
  /\ self' = ExplicitStoreDuals("v")
  /\ out' = [x |-> Val("x"), why |-> "iters"]
  /\ pc' = "e_done"
  /\ UNCHANGED <<mainVars, tensorVars, filterVars, regVars, arg, loc, bind, mem, queue, tests, calls>>

\* The function is called again with the returned iterate, on the object
\* the call before left.
ExplicitCallAgain ==
  /\ pc = "e_done"
  /\ calls < MaxGnIt
  /\ \E n \in SolveIters \ {CheckEvery + 1} : arg' = [arg EXCEPT !.x = out.x, !.iters = n]
  /\ calls' = calls + 1
  /\ pc' = "e_call"
  /\ UNCHANGED <<mainVars, tensorVars, filterVars, regVars, self, loc, bind, mem, queue, tests, out>>

NextDispatch ==
  \/ IrgnSolve3DKspace
  \/ IrgnSolve3DImagespace
  \/ GnStepAgain
  \/ ExplicitEntry
  \/ ExplicitUpdatePrimal
  \/ ExplicitStepSizes
  \/ ExplicitForward
  \/ ExplicitDualAttempt
  \/ ExplicitLineSearchTest
  \/ ExplicitSwapDuals
  \/ ExplicitObjective
  \/ ExplicitReturnEarly
  \/ ExplicitContinue
  \/ ExplicitSwapPrimal
  \/ ExplicitReturn
  \/ ExplicitCallAgain

SpecDispatch == InitDispatch /\ [][NextDispatch]_vars

(***************************************************************************)
(* Properties.                                                             *)
(***************************************************************************)
\* The positions inside the inner solver, from its first update_primal on.
InSolve == pc \in {"pd_primal", "pd_dual", "pd_check", "pd_return", "pd_hang"}

\* The physical bounds the model is constructed with.
PhysicalBounds0 ==
  <<[min |-> Rat(0), max |-> Rat(10), real |-> FALSE],
    [min |-> Rat(-10), max |-> Rat(10), real |-> TRUE]>>

Feasible(z, c) ==
  /\ Le(c.min, z.re)
  /\ Le(z.re, c.max)
  /\ c.real => z.im = Zero

\* C1: whatever update_primal has written satisfies, for every unknown,
\* min <= x <= max and a zero imaginary part where the unknown is real, with
\* the model's constraints as they stand after this GN step's balancing; so
\* does the x the inner solve returns.
C1_PrimalFeasible ==
  /\ pc \in {"pd_dual", "pd_check", "pd_hang"} =>
       \A u \in Uk : Feasible(x_new[u], constraints[u])
  /\ pc = "gn_post" => \A u \in Uk : Feasible(result[u], constraints[u])

\* update_primal has written a NaN: column u of grad_buf is NaN after the
\* balancing of a zero column.
C1_NaNWritten ==
  /\ pc = "pd_dual"
  /\ \E u \in Uk :
       /\ \A s \in Scans : IsNaN(grad_buf[u][s])
       /\ IsNaN(x_new[u].re)
       /\ ~Feasible(x_new[u], constraints[u])

\* C2: after _balance_model_gradients, at every GN step, x[u] * uk_scale[u]
\* is what it was before for every unknown, and every column of grad_x has
\* the norm 10^3 / sqrt(U), that is U * ||grad_x[u]||^2 = 10^6.
C2_BalancingInvariant ==
  pc = "gn_forward" =>
    /\ Physical(result, uk_scale) = gpoint
    /\ \A u \in Uk : Mul(Rat(unknowns), NormSq(grad_x[u])) = Rat(1000000)

\* A zero column has been balanced: the product is 0 * inf and the column NaN.
C2_ZeroColumnBalanced ==
  /\ pc = "gn_forward"
  /\ \E u \in Uk :
       /\ \A s \in Scans : dphys[u][s] = Zero \/ ~IsFinite(dphys[u][s])
       /\ IsNaN(Mul(result[u].re, uk_scale[u]))
       /\ IsFinite(gpoint[u].re)
       /\ IsNaN(NormSq(grad_x[u]))

\* C3: constraint.update(s) divides both bounds by s and keeps the real
\* flag, so that with uk_scale[u] *= s the physical bounds
\* min * uk_scale and max * uk_scale stay what they were over all GN steps,
\* and an x inside its bounds before the balancing is inside them after it.
C3_PhysicalBounds ==
  /\ \A u \in Uk :
       /\ Mul(constraints[u].min, uk_scale[u]) = PhysicalBounds0[u].min
       /\ Mul(constraints[u].max, uk_scale[u]) = PhysicalBounds0[u].max
       /\ constraints[u].real = PhysicalBounds0[u].real
  /\ pc = "gn_forward" =>
       \A u \in Uk :
         (Le(PhysicalBounds0[u].min, gpoint[u].re) /\ Le(gpoint[u].re, PhysicalBounds0[u].max))
           => (Le(constraints[u].min, result[u].re) /\ Le(result[u].re, constraints[u].max))

\* Both bounds of an unknown are 0 and its scale is infinite.
C3_BoundsCollapsed ==
  \E u \in Uk :
    /\ constraints[u].min = Zero
    /\ constraints[u].max = Zero
    /\ uk_scale[u] = PInf
    /\ IsNaN(Mul(constraints[u].max, uk_scale[u]))

\* C4: uk_scale[u] is positive for every unknown after any number of
\* balancing steps, each factor it was multiplied by being positive and
\* finite (uk_scale starts at 1, so it is then finite too), also for a
\* Jacobian with a zero column.
C4_ScalePositive ==
  \A u \in Uk : Lt(Zero, uk_scale[u]) /\ IsFinite(uk_scale[u])

\* The Jacobian had a zero column and the factor was 10^3 / sqrt(U) / 0.
C4_InfiniteScale ==
  /\ pc = "gn_forward"
  /\ ign = 0
  /\ \E u \in Uk :
       /\ \A s \in Scans : dphys[u][s] = Zero
       /\ uk_scale[u] = PInf

\* The objective values of the executed GN steps, as the exit rule names them.
Objective(k) == gn_res[k + 1]

PrevObjective(k) == IF k = 0 THEN Zero ELSE gn_res[k]

ExitRule(k) ==
  Lt(Div(Abs(Sub(PrevObjective(k), Objective(k))), gn_res[1]), cfg.tol)

\* C5: _execute_3D runs the GN steps 0, 1, ... and stops after the first
\* step k with |P_prev - P| / P_init < tol (P the objective of step k,
\* P_prev that of step k - 1, 0 before step 0, P_init that of step 0); if no
\* step satisfies it, it runs max_gn_it steps and never more.
C5_OuterLoopExit ==
  /\ Len(gn_res) <= cfg.max_gn_it
  /\ ign < cfg.max_gn_it
  /\ pc \in {"gn_final", "done"} =>
       /\ Len(gn_res) >= 1
       /\ ExitRule(Len(gn_res) - 1) \/ Len(gn_res) = cfg.max_gn_it
       /\ \A k \in 0 .. Len(gn_res) - 2 : ~ExitRule(k)
  /\ pc \notin {"gn_final", "done", "error", "f_raw", "f_model", "f_used"} =>
       /\ Len(gn_res) = ign
       /\ \A k \in 0 .. Len(gn_res) - 1 : ~ExitRule(k)

\* The run has ended after step 1 by the exit rule, step 0 not satisfying it.
C5_StoppedAtFirst ==
  /\ pc = "done"
  /\ Len(gn_res) = 2
  /\ ~ExitRule(0)
  /\ ExitRule(1)
  /\ IsFinite(gn_res[1]) /\ gn_res[1] # Zero

\* C6: the inner iteration budget handed to the inner solver at GN step k
\* is min(start_iters * 2^k, max_iters) and never exceeds max_iters, for every
\* start_iters and max_iters.
C6_IterationBudget ==
  (pc = "pd_entry" \/ InSolve) =>
    /\ iters = (IF cfg.start_iters * 2^ign < cfg.max_iters
                THEN cfg.start_iters * 2^ign ELSE cfg.max_iters)
    /\ iters <= cfg.max_iters

\* The solver of step 0 has run more than max_iters iterations.
C6_OverBudget ==
  /\ pc = "pd_return"
  /\ ign = 0
  /\ cfg.start_iters > cfg.max_iters
  /\ i > cfg.max_iters

\* C7: the dataset persisted for GN step k is model.rescale of the x the
\* inner solve of step k returned, and the attribute stored with it is the
\* objective evaluated for that same x after the solve: the value the next
\* step computes for it before its own solve.
C7_PersistedValue ==
  /\ (pc \in {"gn_grad", "gn_final", "done"} /\ Len(gn_res) >= 1) =>
       file.ds[DatasetName(cfg.TV, Len(gn_res) - 1)] = Rescale(result, uk_scale)
  /\ (pc = "pd_entry" /\ ign >= 1) =>
       file.attrs[AttributeName(cfg.TV, ign - 1)] = fval

\* The attribute of step 0 is the objective of the linearization point of
\* step 0, not that of the x the solve returned, with every scale finite.
C7_StaleObjective ==
  /\ pc = "pd_entry"
  /\ ign = 1
  /\ \A u \in Uk : IsFinite(uk_scale[u])
  /\ fpoint = Physical(result, uk_scale)
  /\ file.attrs[AttributeName(cfg.TV, 0)] = gn_res[1]
  /\ fval = CalcResidual(step_val, cfg.lambd)
  /\ file.attrs[AttributeName(cfg.TV, 0)] # fval

\* The keys of the executed steps 0 .. last under one prefix.
StepKeys(prefix) == {<<prefix, k>> : k \in 0 .. Len(gn_res) - 1}

\* C8: every executed GN step k has persisted one dataset and one attribute
\* indexed by k, 0 .. last without gap or duplicate, the early-exit step
\* included: tgv_result_iter_<k> with res_tgv_iter_<k> for TGV, tv_result_<k>
\* with res_tv_iter_<k> for TV.
C8_PersistenceKeys ==
  /\ pc # "error"
  /\ DOMAIN file.ds =
       StepKeys(IF cfg.TV = 0 THEN "tgv_result_iter_" ELSE "tv_result_")
  /\ DOMAIN file.attrs =
       StepKeys(IF cfg.TV = 0 THEN "res_tgv_iter_" ELSE "res_tv_iter_")
  /\ pc \in {"gn_final", "done"} => Len(gn_res) >= 1

\* A TV run that left the loop at step 0 of two has persisted step 0.
C8_EarlyExitPersisted ==
  /\ pc = "done"
  /\ cfg.TV = 1
  /\ cfg.max_gn_it = 2
  /\ Len(gn_res) = 1
  /\ DOMAIN file.ds = {<<"tv_result_", 0>>}
  /\ DOMAIN file.attrs = {<<"res_tv_iter_", 0>>}

\* C9: during the inner solve of a GN step, grad_buf and step_val are the
\* model's Jacobian and signal at the linearization point xk under the
\* post-balancing uk_scale, grad_buf has been uploaded once in this step
\* (after the balancing), and grad_buf, step_val and xk are as at the entry.
C9_FrozenLinearization ==
  InSolve =>
    /\ uploads = 1
    /\ xk = result
    /\ Physical(xk, uk_scale) = gpoint
    /\ Physical(xk, uk_scale) = fpoint
    /\ grad_buf = [u \in Uk |-> [s \in Scans |->
                     NanToNum(ExecuteGradient(mdl, dphys, uk_scale)[u][s])]]
    /\ step_val = [s \in Scans |->
                     NanToNum(ExecuteForward(mdl, fphys, xk, uk_scale)[s])]

\* The solve runs on a Jacobian with a NaN column, which the model returns
\* for no point.
C9_NaNJacobianInSolve ==
  /\ pc = "pd_primal"
  /\ uploads = 1
  /\ \E u \in Uk :
       /\ \A s \in Scans : IsNaN(grad_buf[u][s])
       /\ \A s \in Scans : ExecuteGradient(mdl, dphys, uk_scale)[u][s] = Zero

\* C10: every entry of grad_x and step_val a GN step uses is finite, and
\* every NaN, +Inf and -Inf of the model's evaluation has become zero and
\* no other value, for every model.
C10_NonFiniteZeroed ==
  pc = "f_used" =>
    \A j \in DOMAIN filt :
      /\ IsFinite(filt[j])
      /\ ~IsFinite(raw[j]) => filt[j] = Zero

\* An +Inf of a model without a filter of its own reaches the step as the
\* largest float.
C10_InfBecomesMax ==
  /\ pc = "f_used"
  /\ mdl = "IRLL"
  /\ raw[1] = PInf
  /\ filt[1] = Rat(FLT_MAX)
  /\ filt[1] # Zero

(***************************************************************************)
(* The inner solvers.                                                      *)
(***************************************************************************)
\* The state right after the statements before the loop of a solver call.
AtSolverEntry == pc = "s_primal" /\ loc.i = 0

\* The dual and auxiliary arrays of a solve.
DualArrays(TV) == IF TV = 1 THEN {"r", "z1"} ELSE {"r", "z1", "z2", "v"}

\* C11: at entry to every call of tgv_solve_3D or tv_solve_3D, whatever
\* earlier solves left on the object, x equals xk, the duals r, z1, z2 and v
\* are zero, theta is 1, beta_line is 400 and tau is 1/sqrt(L) with
\* L = (18 + sqrt(33))/2 for TGV and L = 8 for TV; and no solve changes the
\* stored tau, beta_line and theta_line.
C11_SolverEntryState ==
  /\ AtSolverEntry =>
       /\ Val("x") = Val("xk")
       /\ Val("x") = arg.x
       /\ \A n \in DualArrays(arg.TV) : Val(n) = Zeros
       /\ loc.theta_line = Known("const", 1, 1)
       /\ loc.beta_line = Known("const", 400, 1)
       /\ loc.tau = IF arg.TV = 1 THEN InvSqrtL(16, 0) ELSE InvSqrtL(18, 33)
  /\ calls > 0 =>
       /\ self.tau = IF arg.TV = 1 THEN InvSqrtL(16, 0) ELSE InvSqrtL(18, 33)
       /\ self.beta_line = Known("const", 400, 1)
       /\ self.theta_line = Known("const", 1, 1)

\* A second call is entered on an object whose duals the first call left
\* non-zero, after line searches that moved the first call's tau.
C11_EntryAfterEarlierSolve ==
  /\ AtSolverEntry
  /\ calls = 2
  /\ self.r # Zeros
  /\ self.z1 # Zeros
  /\ out.x # <<"guess">>

\* The step of the loop body a queue entry belongs to: 1 the update of x,
\* 2 the update of v, 3 the forward images, 4 the dual line search, 5 the
\* swap (the objective check sits between its two tuple assignments).
Stage(e) ==
  CASE e[1] = "update_primal" -> 1
    [] e[1] = "update_v" -> 2
    [] e[1] \in {"grad_op.fwd", "symgrad_op.fwd", "op.fwd"} -> 3
    [] e[1] \in {"update_z1", "update_z2", "update_r", "op.adjKyk1", "update_Kyk2"} -> 4
    [] e[1] \in {"swap", "objective"} -> 5

\* The arrays the launch that writes a target reads.
Reads(target, TV) ==
  CASE target = "x_new" -> {"x", "Kyk1", "xk"}
    [] target = "v_new" -> {"v", "Kyk2"}
    [] target = "gradx" -> {"x_new"}
    [] target = "gradx_xold" -> {"x"}
    [] target = "symgrad_v" -> {"v_new"}
    [] target = "Ax" -> {"x_new"}
    [] target = "z1_new" -> {"z1", "gradx", "gradx_xold"}
                              \cup (IF TV = 1 THEN {} ELSE {"v_new", "v"})
    [] target = "z2_new" -> {"z2", "symgrad_v", "symgrad_v_vold"}
    [] target = "r_new" -> {"r", "Ax", "Axold"}
    [] target = "Kyk1_new" -> {"r_new", "z1_new"}
    [] target = "Kyk2_new" -> {"z2_new", "z1_new"}
    [] OTHER -> {}

\* The names under which an iteration finds what the swap of the previous
\* one (or the entry) left.
AcceptedNames ==
  {"x", "xk", "v", "r", "z1", "z2", "Kyk1", "Kyk2", "Axold", "gradx_xold",
   "symgrad_v_vold"}

\* The tuple assignments of the iteration in the queue have both been made.
SwapDone ==
  /\ \E k \in 1 .. Len(queue) : queue[k][1] = "swap" /\ queue[k][2] = "duals"
  /\ \E k \in 1 .. Len(queue) : queue[k][1] = "swap" /\ queue[k][2] = "primal"

InLineSearch == pc \in {"s_fwd", "s_dual", "s_test", "s_swap"}

\* After that tuple assignment, in the same iteration.
AfterDualSwap == pc \in {"s_check", "s_rules", "s_swapx"}

\* beta_line and theta_line as iteration k found them.
BetaBefore(k) == IF k = 0 THEN self.beta_line.id ELSE <<"beta_new", k - 1, 0>>

ThetaBefore(k, t) ==
  IF k = 0 THEN self.theta_line.id ELSE <<"theta_line", k - 1, Halvings(t)>>

\* The kernel that writes a dual.
DualKernel(n) ==
  CASE n = "r" -> "update_r" [] n = "z1" -> "update_z1" [] n = "z2" -> "update_z2"

\* C13: the step accepted by an inner iteration is tau' = tau'_0 * 0.5^j with
\* tau'_0 = tau * sqrt(beta_old / beta_new * (1 + theta)) and j the smallest
\* number of halvings for which the acceptance test holds for the duals
\* computed with that tau' and theta = tau' / tau; the duals, the Kyk buffers
\* and the tau committed by the swap are those of the accepted attempt.
C13_AcceptedStep ==
  /\ (InLineSearch /\ ~Underflowed(loc.tau_new)) =>
       /\ loc.tau_new.id = <<"tau_new", loc.i, Halvings(loc.tau_new)>>
       /\ loc.tau_new.def =
            <<"tau*sqrt(beta_line/beta_new*(1+theta_line))", loc.tau.id,
              BetaBefore(loc.i), loc.beta_line.id, ThetaBefore(loc.i, loc.tau)>>
       /\ loc.beta_line.id = <<"beta_new", loc.i, 0>>
       /\ tests = {<<<<"tau_new", loc.i, m>>, FALSE>> :
                     m \in 0 .. Halvings(loc.tau_new) - 1}
                  \cup (IF pc = "s_swap" THEN {<<loc.tau_new.id, TRUE>>} ELSE {})
  /\ AfterDualSwap =>
       /\ loc.tau = loc.tau_new
       /\ <<loc.tau.id, TRUE>> \in tests
       /\ \A m \in 0 .. Halvings(loc.tau) - 1 :
            /\ <<<<"tau_new", loc.i, m>>, FALSE>> \in tests
            /\ <<<<"tau_new", loc.i, m>>, TRUE>> \notin tests
       /\ loc.theta_line.def = <<"tau_new/tau", loc.tau.id, loc.tau.def[2]>>
       /\ \A n \in DualArrays(arg.TV) \ {"v"} :
            Val(n) = KDual(DualKernel(n), calls, loc.beta_line, loc.tau, loc.theta_line)
       /\ Val("Kyk1") = AdjKyk1(Val("r"), Val("z1"), self.ratio)
       /\ arg.TV = 0 => Val("Kyk2") = UpdateKyk2(Val("z2"), Val("z1"))

\* The second iteration of a TGV solve has committed a step that was halved
\* once, after a first iteration whose step was halved too.
C13_HalvedStepCommitted ==
  /\ AfterDualSwap
  /\ arg.TV = 0
  /\ loc.i = 1
  /\ Halvings(loc.tau) = 1
  /\ loc.tau.def[2] = <<"tau_new", 0, 1>>

\* An acceptance test has failed with tau_new already at 0.0, which is below
\* 1e-20.
FailedBelowFloor == \E t \in tests : t[1][3] > MaxHalvings /\ ~t[2]

\* C14: when the line search has reduced tau' below 1e-20 without success,
\* the search stops and a non-convergence error is reported; the loop ends
\* for every input, NaN norms included.
C14_SearchStopsAtFloor ==
  (pc \in {"s_dual", "s_test"} /\ Underflowed(loc.tau_new)) =>
    /\ ~FailedBelowFloor
    /\ out # <<>>
    /\ out.why = "line-search-fail"

\* With NaN norms the test has failed at tau_new = 0.0 and is evaluated
\* again on the same values.
C14_SearchSpins ==
  /\ pc = "s_test"
  /\ ~arg.finite
  /\ Underflowed(loc.tau_new)
  /\ <<loc.tau_new.id, FALSE>> \in tests
  /\ Halve(loc.tau_new) = loc.tau_new

\* C15: a line-search failure aborts the GN step and preserves the prior
\* accepted iterate (x, v, r, z1, z2).
C15_FailureAbortsStep ==
  (calls > 0 /\ FailedBelowFloor) =>
    /\ pc = "s_done"
    /\ out.why = "line-search-fail"
    /\ out.x = Val("x")

\* The line search has failed and the solver is launching the dual updates
\* of one more attempt; the accepted arrays are still those the iteration
\* began with, and nothing has been returned.
C15_FailedSearchGoesOn ==
  /\ pc = "s_dual"
  /\ FailedBelowFloor
  /\ loc.i = 0
  /\ Val("x") = arg.x
  /\ \A n \in DualArrays(arg.TV) : Val(n) = Zeros
  /\ calls = 1
  /\ out = <<>>

\* The three rules in the words of the description, on the values of the
\* check in progress: P and gap of this check, P_prev and gap_prev of the
\* check before (0 before the first), gap_init of the check at i = 0.
RulePrimal == Lt(Div(Abs(Sub(loc.primal_new, loc.primal)), arg.fval_init), arg.tol)

RuleStagnation == Lt(Mul(loc.gap_old, arg.stag), loc.gap) /\ loc.i # 0

RuleGap == Lt(Div(Abs(Sub(loc.gap, loc.gap_old)), loc.gap_init), arg.tol)

\* An objective check was made in the iteration in the queue.
Checked == \E k \in 1 .. Len(queue) : queue[k][1] = "objective"

\* C16: P, D and gap = |P - D| are evaluated exactly at the iterations i
\* with i mod 50 = 0 (i = 0 included), and the solver returns before its
\* budget is used up if and only if at such a check |P - P_prev|/f_init < tol,
\* or gap > gap_prev * stag (never at i = 0), or |gap - gap_prev|/gap_init <
\* tol; otherwise it executes all iters iterations.
C16_InnerTermination ==
  /\ [](/\ pc \in {"s_check", "s_rules"} => loc.i % 50 = 0
        /\ pc = "s_swapx" => (Checked <=> loc.i % 50 = 0)
        /\ pc = "s_rules" => loc.gap = Abs(Sub(loc.primal_new, loc.dual))
        /\ pc = "s_done" =>
             IF out.why = "iters"
             THEN loc.i = arg.iters
             ELSE /\ loc.i < arg.iters
                  /\ loc.i % 50 = 0
                  /\ Checked
                  /\ out.why = "primal" => RulePrimal
                  /\ out.why = "stagnation" => RuleStagnation
                  /\ out.why = "gap" => RuleGap)
  /\ [][pc = "s_rules" =>
          (pc' = "s_done" <=> (RulePrimal \/ RuleStagnation \/ RuleGap))]_vars

\* A solve returned at the check of i = 50 because the gap grew by more than
\* the factor stag, after a check at i = 0 that let it go on.
C16_StagnationAtSecondCheck ==
  /\ pc = "s_done"
  /\ out.why = "stagnation"
  /\ loc.i = CheckEvery
  /\ Lt(Zero, loc.gap_old)
  /\ loc.gap_init = loc.gap_old

(***************************************************************************)
(* The regularization schedule.                                            *)
(***************************************************************************)
\* C17: at every GN step k the solver parameters are
\* delta_max = delta_max0 * |x| / 10^3,
\* delta = min(delta0 * |x| * inc^k / 10^3, delta_max),
\* gamma = max(gamma0 * dec_gamma^k, gamma_min) and
\* omega = max(omega0 * dec_omega^k, omega_min), from the values configured
\* before execute and not from those of the step before; hence
\* delta <= delta_max, gamma >= gamma_min and omega >= omega_min.
C17_RegularizationSchedule ==
  pc = "r_updated" =>
    /\ irgn_par.delta_max = Div(Mul(cfg.delta_max, xnorm), Rat(1000))
    /\ irgn_par.delta =
         Minimum(Div(Mul(Mul(cfg.delta, xnorm), Pow(cfg.delta_inc, ign)), Rat(1000)),
                 irgn_par.delta_max)
    /\ irgn_par.gamma = Maximum(Mul(cfg.gamma, Pow(cfg.gamma_dec, ign)), cfg.gamma_min)
    /\ irgn_par.omega = Maximum(Mul(cfg.omega, Pow(cfg.omega_dec, ign)), cfg.omega_min)
    /\ Le(irgn_par.delta, irgn_par.delta_max)
    /\ Le(cfg.gamma_min, irgn_par.gamma)
    /\ Le(cfg.omega_min, irgn_par.omega)

\* The third GN step: delta is capped by delta_max and gamma has decayed
\* from its configured value without reaching its floor.
C17_ThirdStepScheduled ==
  /\ pc = "r_updated"
  /\ ign = 2
  /\ irgn_par.delta = irgn_par.delta_max
  /\ Lt(Zero, irgn_par.delta)
  /\ irgn_par.gamma = Mul(cfg.gamma, Frac(1, 4))
  /\ Lt(cfg.gamma_min, irgn_par.gamma)

(***************************************************************************)
(* The ratio of the finite differences.                                    *)
(***************************************************************************)
\* The ratio operand of a gradient image and of a fused adjoint image.
RatioOfGradient(c) == c[3]

RatioOfAdjoint(c) == c[4]

\* C18: after the balancing of each GN step the ratio vector is recomputed,
\* and the ratio the fused adjoint adjKyk1 uses during that step's solve is
\* the recomputed ratio the forward gradient operator G uses.
C18_AdjointUsesGradientRatio ==
  pc = "s_test" =>
    /\ RatioOfGradient(Val("gradx")) = self.grad_ratio
    /\ RatioOfAdjoint(Val("Kyk1_new")) = RatioOfGradient(Val("gradx"))
    /\ RatioOfAdjoint(Val("Kyk1")) = RatioOfGradient(Val("gradx"))

\* In the solve of the second GN step the gradient is weighted with the
\* recomputed ratio and the adjoint with the ratio of the constructor.
C18_StaleAdjointRatio ==
  /\ pc = "s_test"
  /\ calls = 2
  /\ RatioOfGradient(Val("gradx")) = <<Frac(1, 4), Frac(3, 4)>>
  /\ RatioOfAdjoint(Val("Kyk1_new")) = InitRatio
  /\ self.ratio = InitRatio

(***************************************************************************)
(* The diffusion tensor and the derivatives of the signal.                 *)
(***************************************************************************)
\* The lower-triangular factor [[l1,0,0],[l2,l3,0],[l4,l6,l5]],
\* l_i = x[i] * uk_scale[i].
CholeskyFactor(xx, sc) ==
  LET l(u) == Mul(xx[u], sc[u])
  IN  <<<<l(1), Zero, Zero>>, <<l(2), l(3), Zero>>, <<l(4), l(6), l(5)>>>>

\* L * L^T
TimesTranspose(L) ==
  [r \in 1 .. 3 |-> [c \in 1 .. 3 |->
     Summation([k \in 1 .. 3 |-> Mul(L[r][k], L[c][k])])]]

\* The symmetric tensor of the components rescale returns.
TensorOf(r) == <<<<r[1], r[2], r[4]>>, <<r[2], r[3], r[6]>>, <<r[4], r[6], r[5]>>>>

\* d^T D d
QuadraticForm(D, d) ==
  Summation([r \in 1 .. 3 |->
     Summation([c \in 1 .. 3 |-> Product(<<d[r], D[r][c], d[c]>>)])])

Minor2(D, a, b) == Sub(Mul(D[a][a], D[b][b]), Mul(D[a][b], D[b][a]))

Determinant(D) ==
  Summation(<<
    Mul(D[1][1], Sub(Mul(D[2][2], D[3][3]), Mul(D[2][3], D[3][2]))),
    Neg(Mul(D[1][2], Sub(Mul(D[2][1], D[3][3]), Mul(D[2][3], D[3][1])))),
    Mul(D[1][3], Sub(Mul(D[2][1], D[3][2]), Mul(D[2][2], D[3][1])))>>)

\* Non-negative diagonal and non-negative principal minors.
PositiveSemidefinite(D) ==
  /\ \A a \in 1 .. 3 : Le(Zero, D[a][a])
  /\ Le(Zero, Minor2(D, 1, 2))
  /\ Le(Zero, Minor2(D, 1, 3))
  /\ Le(Zero, Minor2(D, 2, 3))
  /\ Le(Zero, Determinant(D))

\* C19: for real x[1..6] and positive uk_scale the tensor components that
\* DiffdirLL.rescale returns are the entries of L * L^T with
\* L = [[l1,0,0],[l2,l3,0],[l4,l6,l5]], l_i = x[i] * uk_scale[i]; the tensor
\* is positive semidefinite, and it is the tensor D whose quadratic form
\* d^T D d is the ADC in the exponent of _execute_forward_3D.
C19_CholeskyRecombination ==
  (voxel # <<>> /\ voxel.rescaled # <<>>) =>
    /\ TensorOf(voxel.rescaled) = TimesTranspose(CholeskyFactor(voxel.x, voxel.uk_scale))
    /\ PositiveSemidefinite(TensorOf(voxel.rescaled))
    /\ voxel.S.e = Neg(Mul(QuadraticForm(TensorOf(voxel.rescaled), voxel.dir), voxel.b))

\* A tensor with all six factors non-zero, rescaled and evaluated along a
\* direction with three non-zero components.
C19_FullTensorRescaled ==
  /\ voxel # <<>>
  /\ voxel.rescaled # <<>>
  /\ \A u \in 1 .. 6 : voxel.x[u] # Zero
  /\ voxel.uk_scale[3] # One
  /\ voxel.dir = <<Rat(1), Rat(2), Rat(-1)>>
  /\ voxel.rescaled[6] # Zero
  /\ voxel.S.c # Zero

\* The unknowns with x[u] moved by h.
Shifted(xx, u, h) == [xx EXCEPT ![u] = Add(xx[u], h)]

\* dADC/dx[u] of the model's own ADC: the central difference, which is the
\* derivative of an expression of degree two or less.
DerivativeOfAdc(m, xx, sc, d, u) ==
  Div(Sub(Adc(m, Shifted(xx, u, One), sc, d), Adc(m, Shifted(xx, u, Neg(One)), sc, d)),
      Rat(2))

\* f * c * exp(e)
Scaled(v, f) == [c |-> Mul(v.c, f), e |-> v.e]

\* Two signal values are the same number.
SameValue(a, b) == a.c = b.c /\ (a.c = Zero \/ a.e = b.e)

\* C20: for DiffdirLL and Diffdir jacobian(x)[0] * x[0] = forward(x) and, for
\* every u >= 1, jacobian(x)[u] = -b * forward(x) * dADC/dx[u], with ADC the
\* model's own expression in x, uk_scale and the direction.
C20_JacobianIsDerivative ==
  (voxel # <<>> /\ voxel.grad # <<>> /\ voxel.S # <<>>) =>
    /\ SameValue(Scaled(voxel.grad[0], voxel.x[0]), voxel.S)
    /\ \A u \in 1 .. 6 :
         SameValue(voxel.grad[u],
                   Scaled(voxel.S,
                          Mul(Neg(voxel.b),
                              DerivativeOfAdc(voxel.model, voxel.x, voxel.uk_scale,
                                              voxel.dir, u))))

\* The gradient of DiffdirLL at a voxel with signal, where every derivative
\* is non-zero.
C20_GradientEvaluated ==
  /\ voxel # <<>>
  /\ voxel.model = "DiffdirLL"
  /\ voxel.grad # <<>>
  /\ voxel.S # <<>>
  /\ voxel.S.c # Zero
  /\ voxel.uk_scale[6] # One
  /\ \A u \in TensorUk : voxel.grad[u].c # Zero

(***************************************************************************)
(* The initial guess.                                                      *)
(***************************************************************************)
GuessComputed == voxel # <<>> /\ voxel.guess # <<>>

\* C21 as stated: x[0] of the guess is the b0 image when one is available
\* and otherwise the first scan, divided by uk_scale[0], and every other map
\* is initialised to 1.
C21_AllOtherMapsUnit ==
  GuessComputed =>
    /\ voxel.guess[0] = Div(IF voxel.fileb0 # None THEN voxel.fileb0 ELSE voxel.scan0,
                            voxel.uk_scale0)
    /\ \A u \in 1 .. 6 : voxel.guess[u] = One

\* C21 as the code has it: x[0] is the b0 image when one is available;
\* otherwise it is the first scan in DiffdirLL and the first scan times
\* dscale in Diffdir; it is divided by uk_scale[0].  The maps x[1], x[3],
\* x[5] are initialised to 1 and the maps x[2], x[4], x[6] to 0.
C21_InitialGuess ==
  GuessComputed =>
    /\ voxel.guess[0] =
         Div(IF voxel.fileb0 # None THEN voxel.fileb0
             ELSE IF voxel.model = "DiffdirLL" THEN voxel.scan0
             ELSE Mul(voxel.scan0, voxel.dscale),
             voxel.uk_scale0)
    /\ \A u \in {1, 3, 5} : voxel.guess[u] = One
    /\ \A u \in {2, 4, 6} : voxel.guess[u] = Zero

\* A guess of DiffdirLL computed with a b0 image that differs from the
\* first scan, with a rebalanced uk_scale[0].
C21_GuessFromB0 ==
  /\ GuessComputed
  /\ voxel.model = "DiffdirLL"
  /\ voxel.fileb0 = Rat(5)
  /\ voxel.scan0 = Rat(4)
  /\ voxel.uk_scale0 = Rat(2)
  /\ voxel.guess[0] = Frac(5, 2)

(***************************************************************************)
(* execute.                                                                *)
(***************************************************************************)
\* C22: execute called with reco_2D true raises NotImplementedError and
\* leaves the configuration and the solver state as they were: lambd is not
\* multiplied by SNR_est, no GN step runs, nothing is persisted.
C22_NoTwoDVariant ==
  [][/\ pc' = "r_raised" =>
          /\ pc = "r_execute"
          /\ UNCHANGED <<irgn_par, selfpar, self, file, ign, gn_res, result, iters, execs>>
     /\ pc # "r_raised"]_vars

\* execute raises at the second call on the object: lambd carries the
\* factor of the first call only and the file holds the steps of that call.
C22_RaisedAtSecondCall ==
  /\ pc = "r_raised"
  /\ execs = 1
  /\ irgn_par.lambd = Mul(cfg.lambd, cfg.SNR_est)
  /\ DOMAIN file.ds # {}

\* The four scheduled entries are those _update_reg_par left at step ign
\* of the call whose base values are in selfpar.
LeftByLastStep ==
  /\ irgn_par.delta_max = Div(Mul(selfpar.delta_max, xnorm), Rat(1000))
  /\ irgn_par.delta =
       Minimum(Div(Mul(Mul(selfpar.delta, xnorm), Pow(cfg.delta_inc, ign)), Rat(1000)),
               irgn_par.delta_max)
  /\ irgn_par.gamma = Maximum(Mul(selfpar.gamma, Pow(cfg.gamma_dec, ign)), cfg.gamma_min)
  /\ irgn_par.omega = Maximum(Mul(selfpar.omega, Pow(cfg.omega_dec, ign)), cfg.omega_min)

\* C30: execute multiplies irgn_par["lambd"] by SNR_est on entry and never
\* restores it, and every GN step overwrites delta, delta_max, gamma and
\* omega of irgn_par with the scheduled values; after n returned execute
\* calls lambd is the configured lambda times SNR_est^n, and the next call
\* takes as its base values the scheduled values left by the last GN step
\* of the call before.
C30_ConfigurationConsumed ==
  /\ [](/\ pc \in {"r_returned", "r_execute", "r_raised"} =>
             irgn_par.lambd = Mul(cfg.lambd, Pow(cfg.SNR_est, execs))
        /\ (pc \in {"r_returned", "r_execute"} /\ execs >= 1) => LeftByLastStep
        /\ pc \in {"r_updated", "r_saved"} => LeftByLastStep)
  /\ [][/\ (pc = "r_execute" /\ pc' = "r_update") =>
             /\ irgn_par'.lambd = Mul(irgn_par.lambd, cfg.SNR_est)
             /\ selfpar'.delta = irgn_par.delta
             /\ selfpar'.delta_max = irgn_par.delta_max
             /\ selfpar'.gamma = irgn_par.gamma
             /\ selfpar'.omega = irgn_par.omega
        /\ pc # "r_execute" => irgn_par'.lambd = irgn_par.lambd
        /\ pc # "r_execute" => selfpar' = selfpar]_vars

\* The second call has taken over base values that differ from the
\* configured ones, and lambd carries SNR_est twice.
C30_SecondCallFromScheduled ==
  /\ pc = "r_update"
  /\ execs = 1
  /\ selfpar.gamma = Frac(1, 2)
  /\ selfpar.gamma # cfg.gamma
  /\ selfpar.delta_max # cfg.delta_max
  /\ irgn_par.lambd = Mul(cfg.lambd, Mul(cfg.SNR_est, cfg.SNR_est))

(***************************************************************************)
(* The step sizes and the buffers of the line search.                      *)
(***************************************************************************)
\* The tau an iteration found: the one the swap of the iteration before
\* committed (the stored one in the first iteration).
TauBefore == IF InLineSearch THEN loc.tau.id ELSE loc.tau.def[2]

\* The tentative duals of a pass of the line search.
TentativeDuals(TV) == IF TV = 1 THEN {"z1_new", "r_new"} ELSE {"z1_new", "z2_new", "r_new"}

\* C23: beta_line is updated exactly once per inner iteration, before the
\* line search and whatever the number of retries, to
\* beta_line * (1 + tau / delta) with tau the step accepted in the previous
\* iteration, and the dual step handed to every dual update is
\* beta_line * tau' with the already updated beta_line.
C23_BetaLineUpdate ==
  /\ [](/\ pc \in {"s_primal", "s_v", "s_step"} =>
             loc.beta_line.id = BetaBefore(loc.i)
        /\ (InLineSearch \/ AfterDualSwap) =>
             /\ loc.beta_line.id = <<"beta_new", loc.i, 0>>
             /\ loc.beta_line.def =
                  <<"beta_line*(1+mu*tau)", BetaBefore(loc.i), TauBefore>>
             /\ TauBefore = IF loc.i = 0 THEN self.tau.id
                            ELSE <<"tau_new", loc.i - 1, TauBefore[3]>>
        /\ pc \in {"s_test", "s_swap"} =>
             \A n \in TentativeDuals(arg.TV) :
               /\ Val(n)[3] = <<"beta_new", loc.i, 0>>
               /\ Val(n)[4] = loc.tau_new.id)
  /\ [][pc \notin {"s_call", "s_step"} => loc'.beta_line = loc.beta_line]_vars

\* The second iteration of a TGV solve is in the second pass of its line
\* search, after a first iteration that accepted a halved step.
C23_RetryInSecondIteration ==
  /\ pc = "s_test"
  /\ arg.TV = 0
  /\ loc.i = 1
  /\ Halvings(loc.tau_new) = 1
  /\ Halvings(loc.tau) = 1
  /\ Val("z2_new")[4] = <<"tau_new", 1, 1>>

\* The arrays a pass of the line search may write.
TentativeBuffers(TV) ==
  TentativeDuals(TV) \cup {"Kyk1_new"} \cup (IF TV = 1 THEN {} ELSE {"Kyk2_new"})

\* A step of a pass of the line search: its kernels up to the norms, or the
\* failed test that halves tau_new.
PassStep == (pc = "s_dual" /\ pc' = "s_test") \/ (pc = "s_test" /\ pc' = "s_dual")

\* No array other than the tentative ones is written or rebound, and the
\* stored state is left alone.
AcceptedArraysKept ==
  /\ bind' = bind
  /\ \A n \in ArrayNames(arg.TV) \ TentativeBuffers(arg.TV) : mem'[bind[n]] = mem[bind[n]]
  /\ self' = self
  /\ arg' = arg

IterateOf(k) == KPrimal(calls, k)

\* C26: at every objective check of tgv_solve_3D and tv_solve_3D all terms
\* of the primal objective (data term from A x, regularizer terms from
\* G x - v and E v, proximity term x - xk) are computed from buffers holding
\* values of the same iterate, the (x_new, v_new) of that iteration.
C26_ObjectiveAtOneIterate ==
  pc = "s_rules" =>
    /\ loc.terms.data = OpFwd(IterateOf(loc.i))
    /\ loc.terms.prox = <<IterateOf(loc.i), arg.x>>
    /\ loc.terms.grad = GradFwd(IterateOf(loc.i), self.grad_ratio)
    /\ arg.TV = 0 =>
         /\ loc.terms.v = KV(calls, loc.i)
         /\ loc.terms.symgrad = SymgradFwd(KV(calls, loc.i))

\* The check at i = CheckEvery of a TGV solve: the data and the proximity
\* term are of the iterate of this iteration, the regularizer terms of the
\* iterate of the iteration before.
C26_RegularizerOfPreviousIterate ==
  /\ pc = "s_rules"
  /\ arg.TV = 0
  /\ loc.i = CheckEvery
  /\ loc.terms.data = OpFwd(IterateOf(CheckEvery))
  /\ loc.terms.prox = <<IterateOf(CheckEvery), arg.x>>
  /\ loc.terms.grad = GradFwd(IterateOf(CheckEvery - 1), self.grad_ratio)
  /\ loc.terms.v = KV(calls, CheckEvery - 1)
  /\ loc.terms.symgrad = SymgradFwd(KV(calls, CheckEvery - 1))

\* C25: at the start of every inner iteration of tgv_solve_3D, the first
\* one and each one after a swap, Axold = A(x), gradx_xold = G(x),
\* symgrad_v_vold = E(v), Kyk1 = adjKyk1(r, z1) and Kyk2 = update_Kyk2(z2, z1)
\* hold for the currently accepted x, v, r, z1 and z2, although these
\* buffers are computed once at entry and afterwards only rolled by the swap.
C25_OldBuffersCurrent ==
  (pc = "s_primal" /\ arg.TV = 0) =>
    /\ Val("Axold") = OpFwd(Val("x"))
    /\ Val("gradx_xold") = GradFwd(Val("x"), self.grad_ratio)
    /\ Val("symgrad_v_vold") = SymgradFwd(Val("v"))
    /\ Val("Kyk1") = AdjKyk1(Val("r"), Val("z1"), self.ratio)
    /\ Val("Kyk2") = UpdateKyk2(Val("z2"), Val("z1"))

\* The third iteration of a TGV solve starts: x and v are the outputs of the
\* second one, the duals those of its accepted second pass, and the old
\* buffers were last computed from scratch at entry.
C25_ThirdIterationStarts ==
  /\ pc = "s_primal"
  /\ arg.TV = 0
  /\ loc.i = 2
  /\ Val("x") = KPrimal(calls, 1)
  /\ Val("v") = KV(calls, 1)
  /\ Val("z1")[4] = <<"tau_new", 1, 1>>
  /\ \A k \in 1 .. Len(queue) : queue[k][2] \notin {"Axold", "gradx_xold", "symgrad_v_vold"}

\* The pairs of names the tuple assignments exchange.
PingPongPairs(TV) ==
  {<<"x", "x_new">>, <<"z1", "z1_new">>, <<"r", "r_new">>, <<"Kyk1", "Kyk1_new">>,
   <<"Ax", "Axold">>, <<"gradx", "gradx_xold">>}
  \cup (IF TV = 1 THEN {}
        ELSE {<<"v", "v_new">>, <<"z2", "z2_new">>, <<"Kyk2", "Kyk2_new">>,
              <<"symgrad_v", "symgrad_v_vold">>})

\* A solve has allocated its arrays.
ArraysAllocated == bind # <<>>

\* C28: throughout an inner solve x, x_new and xk are three pairwise
\* distinct buffers, the two names of each pair (v, v_new), (z1, z1_new),
\* (z2, z2_new), (r, r_new), (Kyk1, Kyk1_new), (Kyk2, Kyk2_new), (Ax, Axold),
\* (gradx, gradx_xold), (symgrad_v, symgrad_v_vold) refer to two different
\* buffers after any number of swaps, and no kernel has its output buffer
\* among its inputs.
C28_PingPongDistinct ==
  ArraysAllocated =>
    /\ bind["x"] # bind["x_new"] /\ bind["x"] # bind["xk"] /\ bind["x_new"] # bind["xk"]
    /\ \A p \in PingPongPairs(arg.TV) : bind[p[1]] # bind[p[2]]
    /\ \A t \in DOMAIN bind : \A n \in Reads(t, arg.TV) : bind[t] # bind[n]
    /\ \A k \in 1 .. Len(queue) :
         queue[k][1] # "swap" =>
           \A n \in Reads(queue[k][2], arg.TV) : bind[queue[k][2]] # bind[n]

\* After three iterations of a TGV solve every pair has been exchanged an
\* odd number of times and the update of x is about to be launched.
C28_AfterThreeSwaps ==
  /\ pc = "s_primal"
  /\ arg.TV = 0
  /\ loc.i = 3
  /\ \A p \in PingPongPairs(0) : bind[p[1]] = p[2] /\ bind[p[2]] = p[1]
  /\ bind["xk"] = "xk"

\* The index of the last update of x a returned call launched.
LastLaunched == IF out.why = "iters" THEN loc.i - 1 ELSE loc.i

\* tgv_solve_3D and tv_solve_3D: on each of the three early returns and on
\* exhaustion the returned x is the output of the last update_primal, the
\* stored v that of the last update_v and the stored duals those of the
\* last accepted pass.
ReturnedIterateOfTgvAndTv ==
  (pc = "s_done" /\ out # <<>>) =>
    /\ out.x = KPrimal(calls, LastLaunched)
    /\ arg.TV = 0 => self.v = KV(calls, LastLaunched)
    /\ \A n \in DualArrays(arg.TV) \ {"v"} :
         self[n] = KDual(DualKernel(n), calls, loc.beta_line, loc.tau, loc.theta_line)

SolverFor(TV) ==
  IF TV = 1 THEN "tv_solve_3D" ELSE IF TV = 0 THEN "tgv_solve_3D"
  ELSE "tgv_solve_3D_explicit"

\* C29: for every value of the TV flag and for both data modes each GN step
\* invokes exactly one inner solver, tv_solve_3D for TV = 1, tgv_solve_3D for
\* TV = 0 and tgv_solve_3D_explicit for any other value, and the GN iterate
\* is replaced by that solver's return value.
C29_SolverDispatch ==
  /\ pc # "d_raised"
  /\ pc = "d_returned" =>
       /\ out.solver = SolverFor(arg.TV)
       /\ out.x = Returned(SolverFor(arg.TV), arg.x, arg.iters)
  /\ (pc = "d_call" /\ calls > 1) => arg.x = Returned(SolverFor(arg.TV), out.x[2], out.x[3])

\* In image-space mode with a flag that is neither 0 nor 1 the second GN
\* step is called with the initial guess: the first one invoked no solver.
C29_NoSolverInvoked ==
  /\ pc = "d_call"
  /\ calls = 2
  /\ arg.imagespace
  /\ arg.TV = 2
  /\ out.solver = "none"
  /\ arg.x = <<"guess">>

====
